---- MODULE Spec2Model ----
(***************************************************************************)
(* A model of argx (pwwang/argx): the dotted-destination resolver, the     *)
(* value-setting actions, the declaration registry with its namespace      *)
(* groups, the default-merge engine and the parse orchestrator.            *)
(*                                                                         *)
(* Python objects are modelled by what the code can observe of them:       *)
(*   - a Namespace is a heap node, heap[id], a function from attribute     *)
(*     names to values; two references to one node share its id;           *)
(*   - a list is a heap object, lists[id], so that aliasing between a       *)
(*     declaration's default and a namespace attribute is visible;         *)
(*   - a dest is the tuple dest.split("."), so "." in dest is Len > 1.     *)
(***************************************************************************)
EXTENDS Integers, Sequences, FiniteSets, TLC

VARIABLES
    fromfile_prefix_chars, \* parser.fromfile_prefix_chars: "" (None) or "@"
    exit_on_void,          \* parser.exit_on_void
    pre_parse,             \* parser.pre_parse: None or the hook
    registries,            \* parser._registries["type"]: converters by name
    actions,               \* parser._actions: the option declarations, in order
    action_groups,         \* parser._action_groups, in order
    lists,                 \* the list objects, by id
    heap,                  \* the Namespace objects, by id; heap[1] is the root
    pc,                    \* "idle" | "consume" | "done": position of parse_known_args
    args,                  \* the token list of the parse in progress
    new_args,              \* the tokens handed to the grammar
    pos,                   \* how many of new_args the grammar has consumed
    files,                 \* config references kept for the leftover list
    argv,                  \* the leftover (unrecognised) tokens returned
    seen_actions,          \* indices of the declarations matched so far
    outcome,               \* how the last call ended
    actions0,              \* history: the declarations as the parse found them
    fromfile_parse,        \* this parse's fromfile_parse argument
    namespace0,            \* history: the namespace argument as the caller passed it
    parses,                \* number of parse_known_args calls started
    commands,              \* the sub-command parsers, in the order of creation
    parsing,               \* the parser whose parse_known_args runs: 0 or a sub-command
    callers,               \* the parses waiting for a sub-command's, innermost last
    calls,                 \* history: the parse_known_args calls of this parse
    last                   \* history: the call or callback of the last step

vars == <<fromfile_prefix_chars, exit_on_void, pre_parse, registries,
          actions, action_groups, lists, heap, pc, args, new_args, pos, files, argv, seen_actions, outcome,
          actions0, fromfile_parse, namespace0, parses, commands, parsing,
          callers, calls, last>>

---------------------------------------------------------------------------
(* Bounds of the model. *)

\* declarations a program adds to one parser
MaxActions == 2
\* tokens on one command line
MaxArgs == 2
\* parse_known_args calls on one parser, where a program repeats them
MaxParses == 2
\* the occurrences of one flag on a command line
MaxOccurrences == 3
\* get_ns_dest calls on one namespace
MaxResolves == 3
\* sub-command parsers of one program
MaxCommands == 3
\* tokens on one command line, where config references and options mix
MaxTokens == 3

---------------------------------------------------------------------------
(* Values. *)

None == [t |-> "none"]
SUPPRESS == [t |-> "suppress"]
Val(n) == [t |-> "val", v |-> n]
ListRef(id) == [t |-> "list", id |-> id]
NsRef(id) == [t |-> "ns", id |-> id]
Map(m) == [t |-> "map", m |-> m]

\* Namespace(): an object without attributes
EmptyNs == [k \in {} |-> None]

\* the attribute name "a.b.c" of a split dest
RECURSIVE Join(_)
Join(keys) ==
    IF Len(keys) = 1 THEN keys[1]
    ELSE keys[1] \o "." \o Join(Tail(keys))

\* keys[:-1]
Front(keys) == SubSeq(keys, 1, Len(keys) - 1)
\* keys[-1]
Last(keys) == keys[Len(keys)]

---------------------------------------------------------------------------
(* Attribute access on Python objects.  Only a Namespace carries the       *)
(* attributes the parser sets; on any other object (None, a str, an int, a *)
(* list) getattr falls back to its default and setattr raises              *)
(* AttributeError.                                                         *)

hasattr(h, obj, name) ==
    obj.t = "ns" /\ name \in DOMAIN h[obj.id]

getattr(h, obj, name, dflt) ==
    IF hasattr(h, obj, name) THEN h[obj.id][name] ELSE dflt

\* setattr(obj, name, value): the heap after it, and whether it raised
setattr(h, obj, name, value) ==
    IF obj.t = "ns"
    THEN [heap |-> [h EXCEPT ![obj.id] = (name :> value) @@ @], raised |-> FALSE]
    ELSE [heap |-> h, raised |-> TRUE]

---------------------------------------------------------------------------
(* utils.get_ns_dest *)

\* a walk without the lookup "getattr(ns, key, None)": a new Namespace for
\* every key, whatever is there
RECURSIVE get_ns_walk_fresh(_, _, _)
get_ns_walk_fresh(h, ns, keys) ==
    IF keys = <<>> THEN [heap |-> h, ns |-> ns, raised |-> FALSE]
    ELSE LET fresh == NsRef(Len(h) + 1)
             set == setattr(Append(h, EmptyNs), ns, Head(keys), fresh)
         IN  IF set.raised
             THEN [heap |-> h, ns |-> ns, raised |-> TRUE]
             ELSE get_ns_walk_fresh(set.heap, fresh, Tail(keys))

\* the loop over keys[:-1]; ns is the object reached so far
RECURSIVE get_ns_walk(_, _, _)
get_ns_walk(h, ns, keys) ==
    IF keys = <<>> THEN [heap |-> h, ns |-> ns, raised |-> FALSE]
    ELSE LET key == Head(keys)
             value == getattr(h, ns, key, None)
         IN  IF value = None
             THEN LET fresh == NsRef(Len(h) + 1)
                      set == setattr(Append(h, EmptyNs), ns, key, fresh)
                  IN  IF set.raised
                      THEN [heap |-> h, ns |-> ns, raised |-> TRUE]
                      ELSE get_ns_walk(set.heap, fresh, Tail(keys))
             ELSE get_ns_walk(h, value, Tail(keys))

\* get_ns_dest(namespace, dest) -> (ns, keys[-1]); the heap holds the
\* intermediate Namespaces it created
get_ns_dest(h, namespace, dest) ==
    IF Len(dest) = 1
    THEN [heap |-> h, ns |-> namespace, key |-> dest[1], raised |-> FALSE]
    ELSE LET w == get_ns_walk(h, namespace, Front(dest))
         IN  [heap |-> w.heap, ns |-> w.ns, key |-> Last(dest), raised |-> w.raised]

---------------------------------------------------------------------------
(* utils.copy_items *)

\* no copy of a list: "return items", the object itself
copy_items_alias(ls, items) ==
    IF items = None THEN [lists |-> Append(ls, <<>>), items |-> ListRef(Len(ls) + 1)]
    ELSE [lists |-> ls, items |-> items]

\* the list store after the copy, and the copy
copy_items(ls, items) ==
    IF items = None THEN [lists |-> Append(ls, <<>>), items |-> ListRef(Len(ls) + 1)]
    ELSE IF items.t = "list"
    THEN [lists |-> Append(ls, ls[items.id]), items |-> ListRef(Len(ls) + 1)]
    ELSE [lists |-> ls, items |-> items]    \* copy.copy of an immutable

---------------------------------------------------------------------------
(* action.py: each __call__ maps (namespace heap, lists, values) to the    *)
(* heap and lists after it, and tells whether it raised.  Root is the      *)
(* namespace the parse works on.                                           *)

Root == NsRef(1)

\* the result of a __call__ that returned, or raised an exception nothing
\* catches
Done(h, ls, received, raised) ==
    [heap |-> h, lists |-> ls, received |-> received, raised |-> raised,
     error |-> FALSE]

\* the result of a __call__ that ended in parser.error(...)
Failed(h, ls, received) ==
    [heap |-> h, lists |-> ls, received |-> received, raised |-> FALSE,
     error |-> TRUE]

\* items.append(x) on the object items refers to
list_append(ls, items, x) ==
    IF items.t = "list"
    THEN [lists |-> [ls EXCEPT ![items.id] = Append(@, x)], raised |-> FALSE]
    ELSE [lists |-> ls, raised |-> TRUE]

\* items.extend(xs); xs is the list the grammar collected for nargs="+"
list_extend(ls, items, xs) ==
    IF items.t = "list" /\ xs.t = "seq"
    THEN [lists |-> [ls EXCEPT ![items.id] = @ \o xs.items], raised |-> FALSE]
    ELSE [lists |-> ls, raised |-> TRUE]

\* argparse's own store, "setattr(namespace, self.dest, values)": the value
\* goes under the dotted name on the root
StoreAction_flat(act, h, ls, values) ==
    LET s == setattr(h, Root, Join(act.dest), values)
    IN  Done(s.heap, ls, act.received, s.raised)

\* a store that keeps what the dest already holds: "if not hasattr(ns, dest)"
StoreAction_keep(act, h, ls, values) ==
    LET r == get_ns_dest(h, Root, act.dest)
        s == setattr(r.heap, r.ns, r.key, values)
    IN  IF r.raised THEN Done(r.heap, ls, act.received, TRUE)
        ELSE IF hasattr(r.heap, r.ns, r.key) THEN Done(r.heap, ls, act.received, FALSE)
        ELSE Done(s.heap, ls, act.received, s.raised)

StoreAction(act, h, ls, values) ==
    LET r == get_ns_dest(h, Root, act.dest)
        s == setattr(r.heap, r.ns, r.key, values)
    IN  IF r.raised THEN Done(r.heap, ls, act.received, TRUE)
        ELSE Done(s.heap, ls, act.received, s.raised)

StoreConstAction(act, h, ls, values) ==
    LET r == get_ns_dest(h, Root, act.dest)
        s == setattr(r.heap, r.ns, r.key, act.const)
    IN  IF r.raised THEN Done(r.heap, ls, act.received, TRUE)
        ELSE Done(s.heap, ls, act.received, s.raised)

AppendAction(act, h, ls, values) ==
    LET r == get_ns_dest(h, Root, act.dest)
        c == copy_items(ls, getattr(r.heap, r.ns, r.key, None))
        a == list_append(c.lists, c.items, values)
        s == setattr(r.heap, r.ns, r.key, c.items)
    IN  IF r.raised THEN Done(r.heap, ls, act.received, TRUE)
        ELSE IF a.raised THEN Done(r.heap, c.lists, act.received, TRUE)
        ELSE Done(s.heap, a.lists, act.received, s.raised)

AppendConstAction(act, h, ls, values) ==
    LET r == get_ns_dest(h, Root, act.dest)
        c == copy_items(ls, getattr(r.heap, r.ns, r.key, None))
        a == list_append(c.lists, c.items, act.const)
        s == setattr(r.heap, r.ns, r.key, c.items)
    IN  IF r.raised THEN Done(r.heap, ls, act.received, TRUE)
        ELSE IF a.raised THEN Done(r.heap, c.lists, act.received, TRUE)
        ELSE Done(s.heap, a.lists, act.received, s.raised)

\* a flag that is set, not counted: "setattr(ns, dest, 1)"
CountAction_set(act, h, ls, values) ==
    LET r == get_ns_dest(h, Root, act.dest)
        s == setattr(r.heap, r.ns, r.key, Val(1))
    IN  IF r.raised THEN Done(r.heap, ls, act.received, TRUE)
        ELSE Done(s.heap, ls, act.received, s.raised)

CountAction(act, h, ls, values) ==
    LET r == get_ns_dest(h, Root, act.dest)
        got == getattr(r.heap, r.ns, r.key, None)
        value == IF got = None THEN Val(0) ELSE got
        s == setattr(r.heap, r.ns, r.key, Val(value.v + 1))
    IN  IF r.raised THEN Done(r.heap, ls, act.received, TRUE)
        ELSE IF value.t # "val" THEN Done(r.heap, ls, act.received, TRUE)  \* TypeError
        ELSE Done(s.heap, ls, act.received, s.raised)

ExtendAction(act, h, ls, values) ==
    LET r == get_ns_dest(h, Root, act.dest)
        c == copy_items(ls, getattr(r.heap, r.ns, r.key, None))
        a == list_extend(c.lists, c.items, values)
        s == setattr(r.heap, r.ns, r.key, c.items)
    IN  IF r.raised THEN Done(r.heap, ls, act.received, TRUE)
        ELSE IF a.raised THEN Done(r.heap, c.lists, act.received, TRUE)
        ELSE Done(s.heap, a.lists, act.received, s.raised)

\* a ListAction without the "received" branch: what AppendAction does
ListAction_keep(act, h, ls, values) ==
    LET r == AppendAction(act, h, ls, values)
    IN  Done(r.heap, r.lists, TRUE, r.raised)

\* ListAction, registered as "clear_append": the first call of the instance
\* starts from an empty list
ListAction(act, h, ls, values) ==
    LET r == get_ns_dest(h, Root, act.dest)
        c == IF ~act.received
             THEN [lists |-> Append(ls, <<>>), items |-> ListRef(Len(ls) + 1)]
             ELSE copy_items(ls, getattr(r.heap, r.ns, r.key, None))
        a == list_append(c.lists, c.items, values)
        s == setattr(r.heap, r.ns, r.key, c.items)
    IN  IF r.raised THEN Done(r.heap, ls, act.received, TRUE)
        ELSE IF a.raised THEN Done(r.heap, c.lists, TRUE, TRUE)
        ELSE Done(s.heap, a.lists, TRUE, s.raised)

\* ClearExtendAction, registered as "clear_extend": as ListAction, with the
\* values of one occurrence added one by one
ClearExtendAction(act, h, ls, values) ==
    LET r == get_ns_dest(h, Root, act.dest)
        c == IF ~act.received
             THEN [lists |-> Append(ls, <<>>), items |-> ListRef(Len(ls) + 1)]
             ELSE copy_items(ls, getattr(r.heap, r.ns, r.key, None))
        a == list_extend(c.lists, c.items, values)
        s == setattr(r.heap, r.ns, r.key, c.items)
    IN  IF r.raised THEN Done(r.heap, ls, act.received, TRUE)
        ELSE IF a.raised THEN Done(r.heap, c.lists, TRUE, TRUE)
        ELSE Done(s.heap, a.lists, TRUE, s.raised)

\* what a literal that is no JSON text decodes to
Malformed == [t |-> "malformed"]

\* the keys of the mapping m set as attributes of the Namespace node, a
\* nested mapping as a nested Namespace
RECURSIVE ns_merge(_, _, _)
ns_merge(h, node, m) ==
    IF DOMAIN m = {} THEN h
    ELSE LET k == CHOOSE key \in DOMAIN m : TRUE
             rest == [key \in DOMAIN m \ {k} |-> m[key]]
             cur == getattr(h, node, k, None)
             child == IF cur.t = "ns" THEN cur ELSE NsRef(Len(h) + 1)
             made == IF cur.t = "ns" THEN h
                     ELSE setattr(Append(h, EmptyNs), node, k, child).heap
         IN  IF m[k].t = "map"
             THEN ns_merge(ns_merge(made, child, m[k].m), node, rest)
             ELSE ns_merge(setattr(h, node, k, m[k]).heap, node, rest)

\* a decoded literal that is passed on as it is, mapping or not
NamespaceAction_unchecked(act, h, ls, values) ==
    LET r == get_ns_dest(h, Root, act.dest)
        cur == getattr(r.heap, r.ns, r.key, None)
        node == IF cur.t = "ns" THEN cur ELSE NsRef(Len(r.heap) + 1)
        s == IF cur.t = "ns" THEN [heap |-> r.heap, raised |-> FALSE]
             ELSE setattr(Append(r.heap, EmptyNs), r.ns, r.key, node)
    IN  IF r.raised \/ s.raised \/ values.t # "map"
        THEN Done(r.heap, ls, act.received, TRUE)
        ELSE Done(ns_merge(s.heap, node, values.m), ls, act.received, FALSE)

\* NamespaceAction, registered as "ns" and "namespace": values is what the
\* literal decodes to
NamespaceAction(act, h, ls, values) ==
    IF values.t # "map" THEN Failed(h, ls, act.received)
    ELSE LET r == get_ns_dest(h, Root, act.dest)
             cur == getattr(r.heap, r.ns, r.key, None)
             node == IF cur.t = "ns" THEN cur ELSE NsRef(Len(r.heap) + 1)
             s == IF cur.t = "ns" THEN [heap |-> r.heap, raised |-> FALSE]
                  ELSE setattr(Append(r.heap, EmptyNs), r.ns, r.key, node)
         IN  IF r.raised THEN Done(r.heap, ls, act.received, TRUE)
             ELSE IF s.raised THEN Done(r.heap, ls, act.received, TRUE)
             ELSE Done(ns_merge(s.heap, node, values.m), ls, act.received, FALSE)

---------------------------------------------------------------------------
(* The declaration registry: parser._actions and parser._action_groups.    *)

\* an option declaration (an argparse Action instance)
Action(dest, kind, default, required, const) ==
    [dest |-> dest, kind |-> kind, default |-> default, required |-> required,
     const |-> const, type |-> None, received |-> FALSE,
     \* add_attribute("show", True), and help=None
     show |-> TRUE, help |-> None,
     \* history: the default and the required flag of the declaration
     declared |-> [default |-> default, required |-> required]]

\* an _ArgumentGroup (type "group") or a _NamespaceArgumentGroup ("namespace");
\* members are indices into actions
Group(type, name, title) ==
    [type |-> type, name |-> name, title |-> title, members |-> <<>>,
     show |-> TRUE]

\* positions of the groups ArgumentParser.__init__ creates
Positionals == 1
Optionals == 2
RequiredActions == 3

\* the groups that are namespace groups named name
NamespaceGroupsNamed(groups, name) ==
    {g \in 1..Len(groups) : groups[g].type = "namespace" /\ groups[g].name = name}

\* the first group in _action_groups order, among a non-empty set
FirstOf(gs) == CHOOSE g \in gs : \A o \in gs : g <= o

\* an add_namespace without the check of the existing groups
add_namespace_dup(groups, name) ==
    [groups |-> Append(groups, Group("namespace", name,
                                     "namespace <" \o name \o ">")),
     raised |-> FALSE]

\* ArgumentParser.add_namespace(name): the groups after it, or the ValueError
add_namespace(groups, name) ==
    IF NamespaceGroupsNamed(groups, name) # {}
    THEN [groups |-> groups, raised |-> TRUE]
    ELSE [groups |-> Append(groups, Group("namespace", name,
                                          "namespace <" \o name \o ">")),
          raised |-> FALSE]

\* a search that takes the first namespace group there is, whatever its name
find_group_any(groups, keys, seq) ==
    LET found == {g \in 1..Len(groups) : groups[g].type = "namespace"}
    IN  IF found # {} THEN FirstOf(found) ELSE 0

\* the loop of _add_action over seq: the first i whose prefix keys[:i] names
\* a namespace group, 0 when the loop ends without one
RECURSIVE find_group(_, _, _)
find_group(groups, keys, seq) ==
    IF seq = <<>> THEN 0
    ELSE LET found == NamespaceGroupsNamed(groups, Join(SubSeq(keys, 1, Head(seq))))
         IN  IF found # {} THEN FirstOf(found)
             ELSE find_group(groups, keys, Tail(seq))

\* the prefixes from the shortest to the longest: range(1, len(keys))
prefix_seq_up(keys, kind) ==
    LET n == Len(keys)
        up == [j \in 1..(n - 1) |-> j]
    IN  IF kind = "ns" THEN <<n>> \o up ELSE up

\* range(len(keys) - 1, 0, -1), preceded by the whole dest (keys[:None]) for a
\* NamespaceAction
prefix_seq(keys, kind) ==
    LET n == Len(keys)
        down == [j \in 1..(n - 1) |-> n - j]
    IN  IF kind = "ns" THEN <<n>> \o down ELSE down

\* ArgumentParser._add_action(action): _actions and _action_groups after it
add_action(acts, groups, action) ==
    LET idx == Len(acts) + 1
        into(gs, g) == [gs EXCEPT ![g].members = Append(@, idx)]
        added(gs) == [actions |-> Append(acts, action), groups |-> gs,
                      raised |-> FALSE]
    IN  IF action.kind # "ns" /\ Len(action.dest) = 1
        THEN added(into(groups, IF action.required THEN RequiredActions
                                ELSE Optionals))
        ELSE LET g == find_group(groups, action.dest,
                                 prefix_seq(action.dest, action.kind))
                 made == add_namespace(groups, action.dest[1])
             IN  IF g # 0 THEN added(into(groups, g))
                 ELSE IF made.raised
                 THEN [actions |-> acts, groups |-> groups, raised |-> TRUE]
                 ELSE added(into(made.groups, Len(made.groups)))

---------------------------------------------------------------------------
(* The type registry: ArgumentParser._registry_get("type", name, name).    *)

\* a callable object, by its qualified name
Callable(name) == [t |-> "callable", name |-> name]
\* a str object
Str(text) == [t |-> "str", text |-> text]

\* the converters ArgumentParser.__init__ registers
InitTypes ==
    "py" :> Callable("argx.type_.py") @@ "json" :> Callable("argx.type_.json")
    @@ "path" :> Callable("pathlib.Path") @@ "auto" :> Callable("argx.type_.auto")

\* getattr(builtins, value, None), for the names a program passes
builtins_getattr(value) ==
    CASE value = "int" -> Callable("builtins.int")
      [] value = "__name__" -> Str("builtins")
      [] OTHER -> None

\* argparse's own lookup, "self._registries[registry_name].get(value,
\* default)": a name that is not registered is its own result
registry_get_plain(types, value) ==
    LET got == IF value \in DOMAIN types THEN types[value] ELSE Str(value)
    IN  [got |-> got, raised |-> FALSE]

\* _registry_get("type", value, value) for a str value: the converter, or
\* the ValueError "Invalid type"
registry_get(types, value) ==
    LET got == IF value \in DOMAIN types THEN types[value]
               ELSE builtins_getattr(value)
    IN  [got |-> got, raised |-> got.t # "callable"]

---------------------------------------------------------------------------
(* Sub-commands: add_subparser / add_command.  Parser 0 is the parser the  *)
(* program made; parser p > 0 is commands[p], made by add_subparser on     *)
(* its parent.                                                             *)

\* the declarations and groups ArgumentParser.__init__ leaves: the help
\* option, and the positional, optional and required groups
InitActions == <<Action(<<"help">>, "help", SUPPRESS, FALSE, None)>>
InitGroups ==
    <<Group("group", "", "positional arguments"),
      [Group("group", "", "options") EXCEPT !.members = <<1>>],
      Group("group", "", "required arguments")>>

\* the parser add_parser(name, **kwargs) makes, with the level add_subparser
\* gives it
Command(parent, name, level, hook) ==
    [parent |-> parent, name |-> name, level |-> level, pre_parse |-> hook,
     actions |-> InitActions, action_groups |-> InitGroups]

\* parser.level: 0 unless add_subparser set it
level_of(cmds, p) == IF p = 0 THEN 0 ELSE cmds[p].level

\* parser._subparsers_action, as the position of the registry in _actions:
\* 0 stands for None
subparsers_action(acts) ==
    LET found == {i \in 1..Len(acts) : acts[i].kind = "parsers"}
    IN  IF found = {} THEN 0 ELSE CHOOSE i \in found : TRUE

\* a dest that is "COMMAND" at every level
command_dest_flat(level) == "COMMAND"

\* the dest add_subparser gives the registry of a parser of a level
command_dest(level) ==
    IF level = 0 THEN "COMMAND" ELSE "COMMAND" \o ToString(level + 1)

\* add_subparsers(title="subcommands", required=True, dest=...): the
\* registry goes to _actions through a new group of that title
add_subparsers(acts, groups, dest) ==
    [actions |-> Append(acts, Action(<<dest>>, "parsers", None, TRUE, None)),
     groups |-> Append(groups, [Group("group", "", "subcommands")
                                    EXCEPT !.members = <<Len(acts) + 1>>])]

\* parser p's add_subparser(name, pre_parse=hook): the parser's _actions and
\* _action_groups after it, and the sub-command parser it returns
add_subparser(acts, groups, level, p, name, hook) ==
    LET made == IF subparsers_action(acts) = 0
                THEN add_subparsers(acts, groups, command_dest(level))
                ELSE [actions |-> acts, groups |-> groups]
    IN  [actions |-> made.actions, groups |-> made.groups,
         out |-> Command(p, name, level + 1, hook)]

---------------------------------------------------------------------------
(* The default-merge engine: ArgumentParser.set_defaults_from_configs.     *)
(* conf is the mapping Config.load returned, Map(m) with m a function from *)
(* keys to values (nested Maps for tables).                                *)

\* cf[part]: "ok" with the value, "KeyError" when cf is a mapping without
\* the key, "TypeError" when cf is no mapping
subscript(cf, part) ==
    IF cf.t # "map" THEN [status |-> "TypeError", value |-> None]
    ELSE IF part \notin DOMAIN cf.m THEN [status |-> "KeyError", value |-> None]
    ELSE [status |-> "ok", value |-> cf.m[part]]

\* cf = conf; for part in parts: cf = cf[part]
RECURSIVE conf_walk(_, _)
conf_walk(cf, parts) ==
    IF parts = <<>> THEN [status |-> "ok", value |-> cf]
    ELSE LET step == subscript(cf, Head(parts))
         IN  IF step.status # "ok" THEN step
             ELSE conf_walk(step.value, Tail(parts))

\* a merge by dest as one key, "if action.dest in conf", for every dest: a
\* dotted dest finds nothing in a nested mapping
merge_action_flat(action, conf, optionalize) ==
    IF Join(action.dest) \in DOMAIN conf.m
    THEN [action |-> [action EXCEPT !.default = conf.m[Join(action.dest)],
                                    !.required = IF optionalize THEN FALSE ELSE @],
          raised |-> FALSE]
    ELSE [action |-> action, raised |-> FALSE]

\* the loop body without "except KeyError: continue"
merge_action_strict(action, conf, optionalize) ==
    LET got == conf_walk(conf, action.dest)
        set == [action EXCEPT !.default = got.value,
                              !.required = IF optionalize THEN FALSE ELSE @]
    IN  IF Len(action.dest) = 1
        THEN IF action.dest[1] \in DOMAIN conf.m
             THEN [action |-> set, raised |-> FALSE]
             ELSE [action |-> action, raised |-> FALSE]
        ELSE IF got.status = "ok" THEN [action |-> set, raised |-> FALSE]
        ELSE [action |-> action, raised |-> TRUE]

\* a merge that resets what the configuration has no value for:
\* "action.default = None" where the loop body skips
merge_action_reset(action, conf, optionalize) ==
    LET got == conf_walk(conf, action.dest)
        set == [action EXCEPT !.default = got.value,
                              !.required = IF optionalize THEN FALSE ELSE @]
        reset == [action EXCEPT !.default = None]
    IN  IF Len(action.dest) = 1
        THEN IF action.dest[1] \in DOMAIN conf.m
             THEN [action |-> set, raised |-> FALSE]
             ELSE [action |-> action, raised |-> FALSE]
        ELSE IF got.status = "ok" THEN [action |-> set, raised |-> FALSE]
        ELSE IF got.status = "KeyError" THEN [action |-> reset, raised |-> FALSE]
        ELSE [action |-> action, raised |-> TRUE]

\* the body of the loop for one declaration
merge_action(action, conf, optionalize) ==
    LET got == conf_walk(conf, action.dest)
        set == [action EXCEPT !.default = got.value,
                              !.required = IF optionalize THEN FALSE ELSE @]
    IN  IF Len(action.dest) = 1
        THEN IF action.dest[1] \in DOMAIN conf.m
             THEN [action |-> set, raised |-> FALSE]
             ELSE [action |-> action, raised |-> FALSE]
        ELSE IF got.status = "ok" THEN [action |-> set, raised |-> FALSE]
        ELSE IF got.status = "KeyError" THEN [action |-> action, raised |-> FALSE]
        ELSE [action |-> action, raised |-> TRUE]

\* the _actions of a parser: 0 is the parser itself, p > 0 its p-th
\* sub-command parser
ActionsOf(acts, cmds, p) == IF p = 0 THEN acts ELSE cmds[p].actions

\* the parsers with the _actions of parser p replaced
WithActions(acts, cmds, p, mine) ==
    [actions |-> IF p = 0 THEN mine ELSE acts,
     commands |-> IF p = 0 THEN cmds ELSE [cmds EXCEPT ![p].actions = mine]]

\* action._name_parser_map.items() of the registry of parser p: its
\* sub-command parsers, in the order of their creation
name_parser_map(cmds, p) ==
    SelectSeq([k \in 1..Len(cmds) |-> k], LAMBDA k : cmds[k].parent = p)

\* Config.load(conf[name]) of a value under a command name: a mapping is
\* the configuration, anything else is nothing the loader gives back
config_load(value) ==
    IF value.t = "map" THEN [status |-> "ok", conf |-> value]
    ELSE [status |-> "raised", conf |-> value]

\* for action in self._actions, from the i-th on, of parser p: stops where
\* one raises; the registry of sub-commands hands conf[name] on to each
\* sub-command parser whose name is a key
RECURSIVE merge_from(_, _, _, _, _, _)
RECURSIVE merge_subparsers(_, _, _, _, _)
RECURSIVE merge_subparsers_same(_, _, _, _, _)
merge_from(acts, cmds, p, i, conf, optionalize) ==
    LET mine == ActionsOf(acts, cmds, p)
    IN  IF i > Len(mine)
        THEN [actions |-> acts, commands |-> cmds, raised |-> FALSE]
        ELSE LET \* the remaining declarations, after the sub-command parsers
                 rest(sub) ==
                     IF sub.raised THEN sub
                     ELSE merge_from(sub.actions, sub.commands, p, i + 1, conf,
                                     optionalize)
                 nested(w) ==
                     rest(IF mine[i].kind = "parsers"
                          THEN merge_subparsers(w.actions, w.commands,
                                                name_parser_map(cmds, p), conf,
                                                optionalize)
                          ELSE [actions |-> w.actions, commands |-> w.commands,
                                raised |-> FALSE])
                 own(m) ==
                     IF m.raised
                     THEN [actions |-> acts, commands |-> cmds, raised |-> TRUE]
                     ELSE nested(WithActions(acts, cmds, p,
                                             [mine EXCEPT ![i] = m.action]))
             IN  own(merge_action(mine[i], conf, optionalize))

\* a propagation that hands every sub-command parser the configuration of
\* its parent: "subparser.set_defaults_from_configs(conf, ...)"
merge_subparsers_same(acts, cmds, subs, conf, optionalize) ==
    IF subs = <<>> THEN [actions |-> acts, commands |-> cmds, raised |-> FALSE]
    ELSE LET r == merge_from(acts, cmds, Head(subs), 1, conf, optionalize)
         IN  IF r.raised THEN r
             ELSE merge_subparsers_same(r.actions, r.commands, Tail(subs), conf,
                                        optionalize)

\* for name, subparser in action._name_parser_map.items(), over the
\* sub-command parsers subs
merge_subparsers(acts, cmds, subs, conf, optionalize) ==
    IF subs = <<>> THEN [actions |-> acts, commands |-> cmds, raised |-> FALSE]
    ELSE LET c == Head(subs)
             name == cmds[c].name
             ld == config_load(conf.m[name])
             merged(r) ==
                 IF r.raised THEN r
                 ELSE merge_subparsers(r.actions, r.commands, Tail(subs), conf,
                                       optionalize)
         IN  IF name \notin DOMAIN conf.m
             THEN merge_subparsers(acts, cmds, Tail(subs), conf, optionalize)
             ELSE IF ld.status # "ok"
             THEN [actions |-> acts, commands |-> cmds, raised |-> TRUE]
             ELSE merged(merge_from(acts, cmds, c, 1, ld.conf, optionalize))

\* parser p's set_defaults_from_configs(conf, optionalize=...)
set_defaults_from_configs(acts, cmds, p, conf, optionalize) ==
    merge_from(acts, cmds, p, 1, conf, optionalize)

---------------------------------------------------------------------------
(* Command-line tokens.  The grammar is argparse's; a token stands for     *)
(* what it makes of it:                                                    *)
(*   opt  : an option string of declaration i with its argument(s) v       *)
(*   at   : a token whose first character is "@", naming a file with       *)
(*          extension ext and content conf                                 *)
(*   word : any other token, which no declaration matches                  *)
(*   empty: the empty string                                               *)
(*   flag : "--" and a dest, with its argument v, as the program's user    *)
(*          wrote it: the grammar matches it with the declaration of that  *)
(*          dest the parser has when it consumes the token, if it has one  *)
(*   cmd  : the name of a sub-command                                      *)

OptTok(i, v) == [t |-> "opt", i |-> i, v |-> v]
AtTok(ext, conf) == [t |-> "at", ext |-> ext, conf |-> conf]
WordTok == [t |-> "word"]
EmptyTok == [t |-> "empty"]
FlagTok(dest, v) == [t |-> "flag", dest |-> dest, v |-> v]
CmdTok(name) == [t |-> "cmd", name |-> name]

\* the declaration of acts the grammar matches an option token with, 0 when
\* the token is no option of the parser
matched(acts, tok) ==
    IF tok.t = "opt" THEN tok.i
    ELSE IF tok.t # "flag" THEN 0
    ELSE LET found == {i \in 1..Len(acts) :
                         acts[i].dest = tok.dest /\ acts[i].kind = "store"}
         IN  IF found = {} THEN 0 ELSE CHOOSE i \in found : TRUE

\* what loading a file can give instead of a mapping
Unreadable == [t |-> "unreadable"]

\* the test without the branch for "@file.txt"
is_config_ref_txt(prefix_chars, arg) ==
    /\ prefix_chars # ""
    /\ arg.t = "at"

\* parse_known_args' test for a config reference (the else branch of the
\* pre-scan loop)
is_config_ref(prefix_chars, arg) ==
    /\ prefix_chars # ""
    /\ arg.t = "at"
    /\ arg.ext # "txt"

\* import_pyfile / Config.load on the file of a config reference:
\* "ok" with the mapping, "error" (self.error) or "raised"
load_conf(arg) ==
    IF arg.ext = "py"
    THEN IF arg.conf.t = "map" THEN [status |-> "ok", conf |-> arg.conf]
         ELSE [status |-> "error", conf |-> arg.conf]
    ELSE IF arg.conf.t = "map" THEN [status |-> "ok", conf |-> arg.conf]
         ELSE [status |-> "raised", conf |-> arg.conf]

\* a pre-scan that loads the files from the last token to the first
RECURSIVE pre_scan_rtl(_, _, _, _, _, _, _, _, _)
pre_scan_rtl(prefix_chars, as, i, acts, cmds, p, keep, parse, st) ==
    IF i > Len(as) THEN [st EXCEPT !.actions = acts, !.commands = cmds]
    ELSE LET arg == as[Len(as) + 1 - i]
         IN  IF ~is_config_ref(prefix_chars, arg)
             THEN pre_scan_rtl(prefix_chars, as, i + 1, acts, cmds, p, keep, parse,
                               [st EXCEPT !.new_args = <<arg>> \o @])
             ELSE LET st1 == IF keep THEN [st EXCEPT !.files = <<arg>> \o @]
                             ELSE st
                      ld == load_conf(arg)
                      mg == set_defaults_from_configs(acts, cmds, p, ld.conf, TRUE)
                  IN  IF ~parse
                      THEN pre_scan_rtl(prefix_chars, as, i + 1, acts, cmds, p,
                                        keep, parse, st1)
                      ELSE IF ld.status # "ok"
                      THEN [st1 EXCEPT !.actions = acts, !.commands = cmds,
                                       !.status = ld.status]
                      ELSE IF mg.raised
                      THEN [st1 EXCEPT !.actions = mg.actions,
                                       !.commands = mg.commands,
                                       !.status = "raised"]
                      ELSE pre_scan_rtl(prefix_chars, as, i + 1, mg.actions,
                                        mg.commands, p, keep, parse, st1)

\* a pre-scan that keeps the config references whatever fromfile_keep is
RECURSIVE pre_scan_keep(_, _, _, _, _, _, _, _, _)
pre_scan_keep(prefix_chars, as, i, acts, cmds, p, keep, parse, st) ==
    IF i > Len(as) THEN [st EXCEPT !.actions = acts, !.commands = cmds]
    ELSE LET arg == as[i]
         IN  IF ~is_config_ref(prefix_chars, arg)
             THEN pre_scan_keep(prefix_chars, as, i + 1, acts, cmds, p, keep,
                                parse, [st EXCEPT !.new_args = Append(@, arg)])
             ELSE LET st1 == [st EXCEPT !.files = Append(@, arg)]
                      ld == load_conf(arg)
                      merged(mg) ==
                          IF mg.raised
                          THEN [st1 EXCEPT !.actions = mg.actions,
                                           !.commands = mg.commands,
                                           !.status = "raised"]
                          ELSE pre_scan_keep(prefix_chars, as, i + 1, mg.actions,
                                             mg.commands, p, keep, parse, st1)
                  IN  IF ~parse
                      THEN pre_scan_keep(prefix_chars, as, i + 1, acts, cmds, p,
                                         keep, parse, st1)
                      ELSE IF ld.status # "ok"
                      THEN [st1 EXCEPT !.actions = acts, !.commands = cmds,
                                       !.status = ld.status]
                      ELSE merged(set_defaults_from_configs(acts, cmds, p,
                                                            ld.conf, TRUE))

\* the pre-scan loop of parser p's parse_known_args over args[i..]
RECURSIVE pre_scan(_, _, _, _, _, _, _, _, _)
pre_scan(prefix_chars, as, i, acts, cmds, p, keep, parse, st) ==
    IF i > Len(as) THEN [st EXCEPT !.actions = acts, !.commands = cmds]
    ELSE LET arg == as[i]
         IN  IF ~is_config_ref(prefix_chars, arg)
             THEN pre_scan(prefix_chars, as, i + 1, acts, cmds, p, keep, parse,
                           [st EXCEPT !.new_args = Append(@, arg)])
             ELSE LET st1 == IF keep THEN [st EXCEPT !.files = Append(@, arg)]
                             ELSE st
                      ld == load_conf(arg)
                      merged(mg) ==
                          IF mg.raised
                          THEN [st1 EXCEPT !.actions = mg.actions,
                                           !.commands = mg.commands,
                                           !.status = "raised"]
                          ELSE pre_scan(prefix_chars, as, i + 1, mg.actions,
                                        mg.commands, p, keep, parse, st1)
                  IN  IF ~parse
                      THEN pre_scan(prefix_chars, as, i + 1, acts, cmds, p, keep,
                                    parse, st1)
                      ELSE IF ld.status # "ok"
                      THEN [st1 EXCEPT !.actions = acts, !.commands = cmds,
                                       !.status = ld.status]
                      ELSE merged(set_defaults_from_configs(acts, cmds, p,
                                                            ld.conf, TRUE))

\* a seeding without the test "if not hasattr(ns, last_key)"
RECURSIVE seed_dotted_over(_, _, _)
seed_dotted_over(h, acts, i) ==
    IF i > Len(acts) THEN [heap |-> h, raised |-> FALSE]
    ELSE IF Len(acts[i].dest) = 1 THEN seed_dotted_over(h, acts, i + 1)
    ELSE LET r == get_ns_dest(h, Root, acts[i].dest)
             s == setattr(r.heap, r.ns, r.key, acts[i].default)
         IN  IF r.raised \/ s.raised THEN [heap |-> r.heap, raised |-> TRUE]
             ELSE seed_dotted_over(s.heap, acts, i + 1)

\* the loop that seeds the defaults of the dotted declarations, from the
\* i-th declaration on
RECURSIVE seed_dotted(_, _, _)
seed_dotted(h, acts, i) ==
    IF i > Len(acts) THEN [heap |-> h, raised |-> FALSE]
    ELSE IF Len(acts[i].dest) = 1 THEN seed_dotted(h, acts, i + 1)
    ELSE LET r == get_ns_dest(h, Root, acts[i].dest)
             s == setattr(r.heap, r.ns, r.key, acts[i].default)
         IN  IF r.raised THEN [heap |-> r.heap, raised |-> TRUE]
             ELSE IF hasattr(r.heap, r.ns, r.key) THEN seed_dotted(r.heap, acts, i + 1)
             ELSE IF s.raised THEN [heap |-> r.heap, raised |-> TRUE]
             ELSE seed_dotted(s.heap, acts, i + 1)

\* argparse's own seeding at the start of super().parse_known_args: every
\* declaration whose dest (as one attribute name) is missing on the root
RECURSIVE seed_plain(_, _, _)
seed_plain(h, acts, i) ==
    IF i > Len(acts) THEN h
    ELSE LET name == Join(acts[i].dest)
         IN  IF hasattr(h, Root, name) \/ acts[i].default = SUPPRESS
             THEN seed_plain(h, acts, i + 1)
             ELSE seed_plain(setattr(h, Root, name, acts[i].default).heap, acts, i + 1)

---------------------------------------------------------------------------
(* The pre-parse hook: a callable of the program, called with (parser,     *)
(* args, namespace).  A hook here adds store options to the parser, writes *)
(* attributes on the namespace, and returns None or a token list.          *)

\* declares: <<dest, required>> of the options it adds, in order; writes:
\* <<name, value>> of the attributes it sets; returns: None, or the list it
\* gives back, made of args (when extends) and tokens of its own
Hook(declares, writes, returns) ==
    [t |-> "hook", declares |-> declares, writes |-> writes, returns |-> returns]
TokenList(extends, items) == [t |-> "seq", extends |-> extends, items |-> items]

\* callable(self.pre_parse)
callable(obj) == obj.t = "hook"

\* the parser.add_argument calls of a hook, from the i-th on: argparse
\* raises on an option string the parser has already
RECURSIVE hook_declare(_, _, _, _)
hook_declare(acts, groups, decls, i) ==
    IF i > Len(decls) THEN [actions |-> acts, groups |-> groups, raised |-> FALSE]
    ELSE IF \E j \in 1..Len(acts) : acts[j].dest = decls[i][1]
    THEN [actions |-> acts, groups |-> groups, raised |-> TRUE]
    ELSE LET r == add_action(acts, groups,
                             Action(decls[i][1], "store", None, decls[i][2], None))
         IN  IF r.raised THEN r ELSE hook_declare(r.actions, r.groups, decls, i + 1)

\* the namespace.name = value statements of a hook, from the i-th on; a
\* mapping as value stands for Namespace(**mapping)
RECURSIVE hook_write(_, _, _)
hook_write(h, writes, i) ==
    IF i > Len(writes) THEN h
    ELSE IF writes[i][2].t = "map"
    THEN hook_write(ns_merge(setattr(Append(h, EmptyNs), Root, writes[i][1],
                                     NsRef(Len(h) + 1)).heap,
                             NsRef(Len(h) + 1), writes[i][2].m),
                    writes, i + 1)
    ELSE hook_write(setattr(h, Root, writes[i][1], writes[i][2]).heap, writes, i + 1)

\* self.pre_parse(self, args, namespace): the parser's declarations and the
\* namespace after it, and what it returned
run_hook(hook, acts, groups, as, h) ==
    LET d == hook_declare(acts, groups, hook.declares, 1)
    IN  [actions |-> d.actions, groups |-> d.groups,
         heap |-> IF d.raised THEN h ELSE hook_write(h, hook.writes, 1),
         result |-> IF hook.returns = None THEN None
                    ELSE [t |-> "seq",
                          items |-> IF hook.returns.extends
                                    THEN as \o hook.returns.items
                                    ELSE hook.returns.items],
         raised |-> d.raised]

\* a hook whose empty list counts as no list
pre_parse_args_truthy(as, result) ==
    IF result # None /\ result.items # <<>> THEN result.items ELSE as

\* if new_args is not None: args = new_args
pre_parse_args(as, result) ==
    IF result # None THEN result.items ELSE as

\* the _action_groups of a parser
GroupsOf(groups, cmds, p) == IF p = 0 THEN groups ELSE cmds[p].action_groups

\* the pre_parse, fromfile_prefix_chars and exit_on_void of a parser: a
\* sub-command parser is made with the hook add_subparser was given, and
\* with the defaults of the other two
hook_of(hook, cmds, p) == IF p = 0 THEN hook ELSE cmds[p].pre_parse
prefix_of(prefix_chars, p) == IF p = 0 THEN prefix_chars ELSE ""
void_of(void, p) == IF p = 0 THEN void ELSE FALSE

\* parse_known_args of parser p up to the call of the grammar: the hook,
\* the pre-scan with its default merges, the seeding of the dotted defaults
\* and argparse's seeding
parse_prologue(prefix_chars, hook, acts, groups, cmds, p, as, namespace, parse, keep) ==
    LET ran == callable(hook)
        \* the rest of the call, from the seeding of the dotted defaults on
        seeding(hk, given, acts1, cmds1, groups1, scan, mine, seeded) ==
            [actions |-> IF hk.raised THEN acts1 ELSE scan.actions,
             commands |-> IF hk.raised THEN cmds1 ELSE scan.commands,
             action_groups |-> groups1,
             args |-> given,
             new_args |-> IF hk.raised THEN <<>> ELSE scan.new_args,
             files |-> IF hk.raised THEN <<>> ELSE scan.files,
             heap |-> IF hk.raised \/ scan.status # "ok" THEN hk.heap
                      ELSE IF seeded.raised THEN seeded.heap
                      ELSE seed_plain(seeded.heap, mine, 1),
             status |-> IF hk.raised THEN "raised"
                        ELSE IF scan.status # "ok" THEN scan.status
                        ELSE IF seeded.raised THEN "raised" ELSE "ok",
             hooks |-> IF ran THEN 1 ELSE 0]
        scanned(hk, given, acts1, cmds1, groups1, scan, mine) ==
            seeding(hk, given, acts1, cmds1, groups1, scan, mine,
                    seed_dotted(hk.heap, mine, 1))
        \* the rest of the call, from the pre-scan loop on
        scanning(hk, given, acts1, cmds1, groups1) ==
            LET after(scan) ==
                    scanned(hk, given, acts1, cmds1, groups1, scan,
                            ActionsOf(scan.actions, scan.commands, p))
            IN  after(pre_scan(prefix_chars, given, 1, acts1, cmds1, p, keep,
                               parse,
                               [actions |-> acts1, commands |-> cmds1,
                                new_args |-> <<>>, files |-> <<>>,
                                status |-> "ok"]))
        \* the rest of the call, after the hook
        hooked(hk) ==
            scanning(hk, pre_parse_args(as, hk.result),
                     IF p = 0 THEN hk.actions ELSE acts,
                     IF p = 0 THEN cmds
                     ELSE [cmds EXCEPT ![p].actions = hk.actions,
                                       ![p].action_groups = hk.groups],
                     IF p = 0 THEN hk.groups ELSE groups)
    IN  hooked(IF ran
               THEN run_hook(hook, ActionsOf(acts, cmds, p),
                             GroupsOf(groups, cmds, p), as, namespace)
               ELSE [actions |-> ActionsOf(acts, cmds, p),
                     groups |-> GroupsOf(groups, cmds, p), heap |-> namespace,
                     result |-> None, raised |-> FALSE])

---------------------------------------------------------------------------
(* The inputs the model draws from. *)

\* the dests a program declares: plain, dotted, siblings under one prefix,
\* three segments, and pairs where one dest is a prefix of the other
Dests == {<<"x">>, <<"g">>, <<"g", "a">>, <<"g", "b">>, <<"g", "a", "c">>}

\* names given to add_namespace
NamespaceNames == {"g", "g.a"}

StoreKinds == {"store", "store_const"}
CountKinds == {"count"}
ListKinds == {"append", "append_const", "extend", "clear_append", "clear_extend"}

\* the literal [0] as a default, before the list object exists
ListLiteral == [t |-> "seq", items |-> <<Val(0)>>]

\* defaults a declaration of a kind is given (a required option is given
\* none)
DefaultsOf(kind, required) ==
    IF required \/ kind = "ns" THEN {None}
    ELSE IF kind \in ListKinds THEN {None, ListLiteral}
    ELSE IF kind \in CountKinds THEN {None, Val(0), SUPPRESS}
    ELSE {None, Val(0)}

\* the literal {"a": 3, "d": 4, "n": {"c": 5}}, decoded
LiteralObject ==
    Map("a" :> Val(3) @@ "d" :> Val(4) @@ "n" :> Map("c" :> Val(5)))

\* what the grammar passes as values to an action of a kind
ValuesOf(kind) ==
    IF kind \in {"store", "append", "clear_append"} THEN {Val(1), Val(2)}
    ELSE IF kind \in {"extend", "clear_extend"}
    THEN {[t |-> "seq", items |-> <<Val(1)>>],
          [t |-> "seq", items |-> <<Val(1), Val(2)>>]}
    ELSE IF kind = "ns" THEN {LiteralObject, Val(1), Malformed}
    ELSE {None}

\* configurations: one for x, g.a and g.b; another for x and g.a; a partial
\* one without a "g" table; one whose "g" table lacks "a"; one with a table
\* under g.a; and one whose "g" is no table
ConfFull == Map("x" :> Val(3) @@ "g" :> Map("a" :> Val(3) @@ "b" :> Val(3)))
ConfOther == Map("x" :> Val(4) @@ "g" :> Map("a" :> Val(4)))
ConfPartial == Map("x" :> Val(4))
ConfNoLeaf == Map("g" :> Map("b" :> Val(4)))
ConfDeep == Map("g" :> Map("a" :> Map("c" :> Val(5))))
ConfScalar == Map("g" :> Val(3))
Confs == {ConfFull, ConfOther, ConfPartial, ConfNoLeaf, ConfDeep, ConfScalar}

\* the tokens a command line for the declarations acts is made of: their
\* options, and the other tokens a program is given
Tokens(acts, others) ==
    UNION {{OptTok(i, v) : v \in ValuesOf(acts[i].kind)} :
               i \in {j \in 2..Len(acts) : acts[j].kind # "parsers"}}
        \cup others

\* the command lines of at most maxlen tokens
ArgLists(acts, others, maxlen) ==
    UNION {[1..n -> Tokens(acts, others)] : n \in 0..maxlen}

\* the namespace argument of parse_known_args: None (a fresh Namespace()) or
\* a namespace the caller filled, Namespace(g=Namespace(a=7))
FreshNamespace == <<EmptyNs>>
FilledNamespace == <<("g" :> NsRef(2)), ("a" :> Val(7))>>
Namespaces == {FreshNamespace, FilledNamespace}

---------------------------------------------------------------------------
(* The state machine. *)

\* ArgumentParser(fromfile_prefix_chars=..., exit_on_void=...,
\* pre_parse=...): the actions and types are registered, the help option is
\* declared, and the three groups exist; the program holds a namespace
InitParser(prefixes, voids, hooks, namespaces) ==
    /\ fromfile_prefix_chars \in prefixes
    /\ exit_on_void \in voids
    /\ pre_parse \in hooks
    /\ registries = InitTypes
    /\ actions = <<Action(<<"help">>, "help", SUPPRESS, FALSE, None)>>
    /\ action_groups =
           <<Group("group", "", "positional arguments"),
             [Group("group", "", "options") EXCEPT !.members = <<1>>],
             Group("group", "", "required arguments")>>
    /\ lists = <<>>
    /\ heap \in namespaces
    /\ pc = "idle"
    /\ args = <<>>
    /\ new_args = <<>>
    /\ pos = 0
    /\ files = <<>>
    /\ argv = <<>>
    /\ seen_actions = {}
    /\ outcome = "none"
    /\ actions0 = actions
    /\ fromfile_parse = TRUE
    /\ namespace0 = heap
    /\ parses = 0
    /\ commands = <<>>
    /\ parsing = 0
    /\ callers = <<>>
    /\ calls = <<>>
    /\ last = [op |-> "init"]

\* the same, of a parser built without a pre_parse hook
InitWith(prefixes, voids, namespaces) ==
    InitParser(prefixes, voids, {None}, namespaces)

\* what the constructor was given, and the type registry
settings == <<fromfile_prefix_chars, exit_on_void, pre_parse, registries>>

\* the parse_known_args calls in progress
nesting == <<parsing, callers, calls>>

\* the variables of a parse in progress
parse_vars == <<heap, pc, args, new_args, pos, files, argv, seen_actions,
                actions0, fromfile_parse, namespace0, parses, nesting>>

\* parser.add_argument("--" + ".".join(dest), action=kind, default=...,
\* required=..., const=...), while no parse runs, on a parser with at most
\* limit declarations
AddArgument(dests, kinds, requireds, limit) ==
    \E dest \in dests, kind \in kinds, required \in requireds :
      \E default \in DefaultsOf(kind, required) :
        LET is_list == default.t = "seq"
            dflt == IF is_list THEN ListRef(Len(lists) + 1) ELSE default
            const == IF kind \in {"store_const", "append_const"} THEN Val(1)
                     ELSE None
            added == add_action(actions, action_groups,
                                Action(dest, kind, dflt, required, const))
        IN  /\ pc = "idle"
            /\ Len(actions) <= limit
            /\ \A i \in 1..Len(actions) : actions[i].dest # dest
            /\ actions' = added.actions
            /\ action_groups' = added.groups
            /\ lists' = IF is_list /\ ~added.raised
                        THEN Append(lists, default.items) ELSE lists
            /\ outcome' = IF added.raised THEN "raised" ELSE "ok"
            /\ last' = [op |-> "add_argument", dest |-> dest]
            /\ UNCHANGED <<settings, commands, parse_vars>>

\* parser.add_subparser(name) on the parser itself or on one of its
\* sub-command parsers, with a name the parser has not yet, for at most
\* limit sub-commands
AddSubparser(names, hooks, limit) ==
    \E p \in 0..Len(commands), name \in names, hook \in hooks :
        LET mine == ActionsOf(actions, commands, p)
            groups == IF p = 0 THEN action_groups ELSE commands[p].action_groups
            r == add_subparser(mine, groups, level_of(commands, p), p, name, hook)
        IN  /\ pc = "idle"
            /\ Len(commands) < limit
            /\ \A k \in 1..Len(commands) :
                   commands[k].parent = p => commands[k].name # name
            /\ actions' = IF p = 0 THEN r.actions ELSE actions
            /\ action_groups' = IF p = 0 THEN r.groups ELSE action_groups
            /\ commands' =
                   Append(IF p = 0 THEN commands
                          ELSE [commands EXCEPT ![p].actions = r.actions,
                                                ![p].action_groups = r.groups],
                          r.out)
            /\ outcome' = "ok"
            /\ last' = [op |-> "add_subparser", parser |-> p, name |-> name]
            /\ UNCHANGED <<settings, lists, parse_vars>>

\* command.add_argument("--" + ".".join(dest), default=..., required=...)
\* on a sub-command parser with at most limit declarations
AddCommandArgument(dests, requireds, limit) ==
    \E p \in 1..Len(commands), dest \in dests, required \in requireds :
      \E default \in DefaultsOf("store", required) :
        LET mine == commands[p].actions
            added == add_action(mine, commands[p].action_groups,
                                Action(dest, "store", default, required, None))
        IN  /\ pc = "idle"
            /\ Len(mine) <= limit
            /\ \A i \in 1..Len(mine) : mine[i].dest # dest
            /\ commands' = [commands EXCEPT ![p].actions = added.actions,
                                            ![p].action_groups = added.groups]
            /\ outcome' = IF added.raised THEN "raised" ELSE "ok"
            /\ last' = [op |-> "add_argument", parser |-> p, dest |-> dest]
            /\ UNCHANGED <<settings, actions,
                           action_groups, lists, parse_vars>>

\* parser.register("type", name, object)
Register(names, objects) ==
    \E name \in names, object \in objects :
        /\ pc = "idle"
        /\ registries' = (name :> object) @@ registries
        /\ outcome' = "ok"
        /\ last' = [op |-> "register", name |-> name]
        /\ UNCHANGED <<fromfile_prefix_chars, exit_on_void, pre_parse, commands,
                       actions, action_groups, lists, parse_vars>>

\* parser.add_argument("--" + ".".join(dest), type=name) with a str for the
\* type: argparse's add_argument looks the type up, checks that it is
\* callable, and only then adds the declaration
AddTypedArgument(dests, names, limit) ==
    \E dest \in dests, name \in names :
        LET found == registry_get(registries, name)
            declared == [Action(dest, "store", None, FALSE, None)
                             EXCEPT !.type = Str(name)]
            added == add_action(actions, action_groups, declared)
            failed == found.raised \/ found.got.t # "callable" \/ added.raised
        IN  /\ pc = "idle"
            /\ Len(actions) <= limit
            /\ \A i \in 1..Len(actions) : actions[i].dest # dest
            /\ actions' = IF failed THEN actions ELSE added.actions
            /\ action_groups' = IF failed THEN action_groups ELSE added.groups
            /\ outcome' = IF found.raised THEN "raised: Invalid type"
                          ELSE IF failed THEN "raised" ELSE "ok"
            /\ last' = [op |-> "add_argument", dest |-> dest, type |-> name,
                        type_func |-> found.got]
            /\ UNCHANGED <<settings, commands, lists, parse_vars>>

\* parser.add_namespace(name), before the first parse
AddNamespace(names) ==
    \E name \in names :
        LET made == add_namespace(action_groups, name)
        IN  /\ pc = "idle"
            /\ action_groups' = made.groups
            /\ outcome' = IF made.raised THEN "raised" ELSE "ok"
            /\ last' = [op |-> "add_namespace", name |-> name]
            /\ UNCHANGED <<settings, commands, actions, lists,
                           parse_vars>>

\* parser.set_defaults_from_configs(conf, optionalize=...), before the first
\* parse
SetDefaultsFromConfigs(confs) ==
    /\ pc = "idle"
    /\ \E conf \in confs, optionalize \in BOOLEAN :
        \E merged \in {set_defaults_from_configs(actions, commands, 0, conf,
                                                  optionalize)} :
            /\ actions' = merged.actions
            /\ commands' = merged.commands
            /\ outcome' = IF merged.raised THEN "raised" ELSE "ok"
            /\ last' = [op |-> "set_defaults_from_configs", conf |-> conf,
                        optionalize |-> optionalize]
            /\ UNCHANGED <<settings, action_groups,
                           lists, parse_vars>>

\* the list objects the declarations' defaults refer to: lists[1..n]; the
\* lists of an earlier parse's namespace are unreachable once it is dropped
default_lists(acts, ls) ==
    LET ids == {acts[i].default.id : i \in {j \in 1..Len(acts) :
                                             acts[j].default.t = "list"}}
    IN  SubSeq(ls, 1, IF ids = {} THEN 0 ELSE CHOOSE m \in ids : \A o \in ids : o <= m)

\* the action registered for a kind, applied
call(act, h, ls, values) ==
    CASE act.kind = "store" -> StoreAction(act, h, ls, values)
      [] act.kind = "store_const" -> StoreConstAction(act, h, ls, values)
      [] act.kind = "append" -> AppendAction(act, h, ls, values)
      [] act.kind = "append_const" -> AppendConstAction(act, h, ls, values)
      [] act.kind = "count" -> CountAction(act, h, ls, values)
      [] act.kind = "extend" -> ExtendAction(act, h, ls, values)
      [] act.kind = "clear_append" -> ListAction(act, h, ls, values)
      [] act.kind = "clear_extend" -> ClearExtendAction(act, h, ls, values)
      [] act.kind = "ns" -> NamespaceAction(act, h, ls, values)
      [] OTHER -> Done(h, ls, act.received, FALSE)

\* parser.parse_known_args(args, namespace, fromfile_parse, fromfile_keep)
\* up to the point where the grammar starts consuming; args has at most
\* maxlen tokens
ParseKnownArgs(others, namespaces, flags, maxlen) ==
    /\ pc = "idle"
    /\ \E as \in ArgLists(actions, others, maxlen), namespace \in namespaces,
          parse \in flags, keep \in BOOLEAN :
        \E r \in {parse_prologue(fromfile_prefix_chars, pre_parse, actions,
                                  action_groups, commands, 0, as, namespace,
                                  parse, keep)} :
            /\ parses' = parses + 1
            /\ args' = r.args
            /\ fromfile_parse' = parse
            /\ namespace0' = namespace
            /\ actions0' = actions
            /\ actions' = r.actions
            /\ action_groups' = r.action_groups
            /\ commands' = r.commands
            /\ new_args' = r.new_args
            /\ files' = r.files
            /\ lists' = default_lists(actions, lists)
            /\ heap' = r.heap
            /\ pos' = 0
            /\ argv' = <<>>
            /\ seen_actions' = {}
            /\ pc' = IF r.status = "ok" THEN "consume" ELSE "done"
            /\ outcome' = IF r.status = "ok" THEN "none"
                          ELSE IF r.status = "error" THEN "error: Cannot import"
                          ELSE "raised"
            /\ parsing' = 0
            /\ callers' = <<>>
            /\ calls' = <<[parser |-> 0, hooks |-> r.hooks, given |-> as,
                           keep |-> keep]>>
            /\ last' = [op |-> "parse_known_args"]
            /\ UNCHANGED settings

\* the declarations of the parser whose parse_known_args runs
running == ActionsOf(actions, commands, parsing)

\* the grammar matches the next token with a declaration and calls its action
Dispatch ==
    /\ pc = "consume"
    /\ pos < Len(new_args)
    /\ matched(running, new_args[pos + 1]) # 0
    /\ \E r \in {call(running[matched(running, new_args[pos + 1])], heap,
                      lists, new_args[pos + 1].v)} :
       LET tok == new_args[pos + 1]
           i == matched(running, tok)
           w == WithActions(actions, commands, parsing,
                            [running EXCEPT ![i].received = r.received])
       IN  /\ heap' = r.heap
           /\ lists' = r.lists
           /\ actions' = w.actions
           /\ commands' = w.commands
           /\ seen_actions' = seen_actions \cup {i}
           /\ pos' = pos + 1
           /\ pc' = IF r.raised \/ r.error THEN "done" ELSE "consume"
           /\ outcome' = IF r.raised THEN "raised"
                         ELSE IF r.error THEN "error: argument"
                         ELSE outcome
           /\ last' = [op |-> "call", i |-> i, values |-> tok.v]
    /\ UNCHANGED <<settings, action_groups, args,
                   new_args, files, argv, actions0, fromfile_parse, namespace0,
                   parses, nesting>>

\* the grammar, given a prefix, reads a token that starts with it as a file
\* of arguments
reads_args_file(prefix_chars, arg) == prefix_chars # "" /\ arg.t = "at"

\* the grammar replaces the next token, "@file.txt", by the lines of the
\* file, none of which a declaration matches here, or ends in its error when
\* it cannot read the file
ReadArgsFile ==
    /\ pc = "consume"
    /\ pos < Len(new_args)
    /\ reads_args_file(prefix_of(fromfile_prefix_chars, parsing), new_args[pos + 1])
    /\ LET readable == new_args[pos + 1].conf.t = "map"
       IN  /\ new_args' = IF readable THEN [new_args EXCEPT ![pos + 1] = WordTok]
                          ELSE new_args
           /\ pc' = IF readable THEN "consume" ELSE "done"
           /\ outcome' = IF readable THEN outcome ELSE "error: argument"
    /\ last' = [op |-> "read_args_file"]
    /\ UNCHANGED <<settings, commands, actions, action_groups,
                   lists, heap, args, pos, files, argv, seen_actions,
                   actions0, fromfile_parse, namespace0, parses, nesting>>

\* the next token is a positional argument, and the parser has a registry
\* of sub-commands to take it
takes_command(acts, tok) ==
    /\ subparsers_action(acts) # 0
    /\ tok.t \notin {"opt", "flag"}

\* the sub-command parser of parser p with a name, 0 when it has none
parser_named(cmds, p, tok) ==
    LET found == {c \in 1..Len(cmds) :
                     cmds[c].parent = p /\ tok.t = "cmd" /\ cmds[c].name = tok.name}
    IN  IF found = {} THEN 0 ELSE CHOOSE c \in found : TRUE

\* a Namespace() of its own
NewNamespace == <<EmptyNs>>

\* the grammar gives the next token and all that follow to the registry of
\* sub-commands: it sets its dest to the name and calls the parse_known_args
\* of the sub-command parser of that name with the tokens that follow and a
\* namespace of its own, or ends in the error of a name it has not
Subcommand ==
    /\ pc = "consume"
    /\ pos < Len(new_args)
    /\ ~reads_args_file(prefix_of(fromfile_prefix_chars, parsing), new_args[pos + 1])
    /\ takes_command(running, new_args[pos + 1])
    /\ LET tok == new_args[pos + 1]
           c == parser_named(commands, parsing, tok)
           sp == subparsers_action(running)
           named == setattr(heap, Root, Join(running[sp].dest), Str(tok.name)).heap
           rest == SubSeq(new_args, pos + 2, Len(new_args))
       IN  IF c = 0
           THEN /\ pc' = "done"
                /\ outcome' = "error: argument"
                /\ pos' = pos + 1
                /\ UNCHANGED <<actions, action_groups, commands, heap, args,
                               new_args, files, argv, seen_actions, nesting>>
           ELSE \E r \in {parse_prologue(prefix_of(fromfile_prefix_chars, c),
                                           hook_of(pre_parse, commands, c),
                                           actions, action_groups, commands,
                                           c, rest, NewNamespace, TRUE, FALSE)} :
                /\ callers' = Append(callers,
                                     [parser |-> parsing, heap |-> named,
                                      args |-> args, new_args |-> new_args,
                                      files |-> files, argv |-> argv,
                                      seen_actions |-> seen_actions \cup {sp}])
                /\ parsing' = c
                /\ calls' = Append(calls, [parser |-> c, hooks |-> r.hooks,
                                           given |-> rest, keep |-> FALSE])
                /\ actions' = r.actions
                /\ action_groups' = r.action_groups
                /\ commands' = r.commands
                /\ heap' = r.heap
                /\ args' = r.args
                /\ new_args' = r.new_args
                /\ files' = r.files
                /\ argv' = <<>>
                /\ seen_actions' = {}
                /\ pos' = 0
                /\ pc' = IF r.status = "ok" THEN "consume" ELSE "done"
                /\ outcome' = IF r.status = "ok" THEN outcome
                              ELSE IF r.status = "error"
                              THEN "error: Cannot import"
                              ELSE "raised"
    /\ last' = [op |-> "subcommand"]
    /\ UNCHANGED <<settings, lists, actions0, fromfile_parse, namespace0, parses>>

\* the grammar matches the next token with no declaration: it is left over
Leftover ==
    /\ pc = "consume"
    /\ pos < Len(new_args)
    /\ matched(running, new_args[pos + 1]) = 0
    /\ ~reads_args_file(prefix_of(fromfile_prefix_chars, parsing), new_args[pos + 1])
    /\ ~takes_command(running, new_args[pos + 1])
    /\ argv' = Append(argv, new_args[pos + 1])
    /\ pos' = pos + 1
    /\ last' = [op |-> "leftover"]
    /\ UNCHANGED <<settings, commands, actions, action_groups,
                   lists, heap, pc, args, new_args, files, seen_actions,
                   outcome, actions0, fromfile_parse, namespace0, parses, nesting>>

\* an end of the parse without the void check: argparse's own
\* parse_known_args
Finish_novoid ==
    /\ pc = "consume"
    /\ pos = Len(new_args)
    /\ LET missing == {i \in 1..Len(running) :
                         running[i].required /\ i \notin seen_actions}
       IN  /\ argv' = IF missing # {} THEN argv ELSE files \o argv
           /\ outcome' = IF missing # {} THEN "error: required" ELSE "ok"
           /\ pc' = IF missing = {} /\ callers # <<>> THEN "returning" ELSE "done"
    /\ last' = [op |-> "finish"]
    /\ UNCHANGED <<settings, commands, actions, action_groups,
                   lists, heap, args, new_args, pos, files, seen_actions,
                   actions0, fromfile_parse, namespace0, parses, nesting>>

\* an end whose void check looks at the token list as the caller gave it
Finish_given ==
    /\ pc = "consume"
    /\ pos = Len(new_args)
    /\ LET missing == {i \in 1..Len(running) :
                         running[i].required /\ i \notin seen_actions}
           left == files \o argv
           void == left = <<>> /\ calls[Len(calls)].given = <<>>
                               /\ void_of(exit_on_void, parsing)
       IN  /\ argv' = IF missing # {} THEN argv ELSE left
           /\ outcome' = IF missing # {} THEN "error: required"
                         ELSE IF void THEN "error: No arguments provided"
                         ELSE "ok"
           /\ pc' = IF missing = {} /\ ~void /\ callers # <<>> THEN "returning"
                    ELSE "done"
    /\ last' = [op |-> "finish"]
    /\ UNCHANGED <<settings, commands, actions, action_groups,
                   lists, heap, args, new_args, pos, files, seen_actions,
                   actions0, fromfile_parse, namespace0, parses, nesting>>

\* the end of a parse_known_args: argparse's check of the required options,
\* then the leftover list and the void check; a sub-command's goes back to
\* the registry that called it
Finish ==
    /\ pc = "consume"
    /\ pos = Len(new_args)
    /\ LET missing == {i \in 1..Len(running) :
                         running[i].required /\ i \notin seen_actions}
           left == files \o argv
           void == left = <<>> /\ args = <<>> /\ void_of(exit_on_void, parsing)
       IN  /\ argv' = IF missing # {} THEN argv ELSE left
           /\ outcome' = IF missing # {} THEN "error: required"
                         ELSE IF void THEN "error: No arguments provided"
                         ELSE "ok"
           /\ pc' = IF missing = {} /\ ~void /\ callers # <<>> THEN "returning"
                    ELSE "done"
    /\ last' = [op |-> "finish"]
    /\ UNCHANGED <<settings, commands, actions, action_groups,
                   lists, heap, args, new_args, pos, files, seen_actions,
                   actions0, fromfile_parse, namespace0, parses, nesting>>

\* an attribute value of the namespace of a sub-command, as a value of the
\* namespace of its caller, whose objects come first
moved(value, by) == IF value.t = "ns" THEN NsRef(value.id + by) ELSE value

\* the registry of sub-commands, after the parse_known_args it called: it
\* sets every attribute of the sub-command's namespace on its own and hands
\* the sub-command's leftover tokens on; the grammar of its parser has no
\* token left
SubReturn ==
    /\ pc = "returning"
    /\ LET frame == callers[Len(callers)]
           by == Len(frame.heap) - 1
           sub == [k \in 1..Len(heap) |->
                      [name \in DOMAIN heap[k] |-> moved(heap[k][name], by)]]
           top == [name \in DOMAIN sub[1] \cup DOMAIN frame.heap[1] |->
                      IF name \in DOMAIN sub[1] THEN sub[1][name]
                      ELSE frame.heap[1][name]]
       IN  /\ heap' = <<top>> \o Tail(frame.heap) \o Tail(sub)
           /\ parsing' = frame.parser
           /\ args' = frame.args
           /\ new_args' = frame.new_args
           /\ pos' = Len(frame.new_args)
           /\ files' = frame.files
           /\ argv' = frame.argv \o argv
           /\ seen_actions' = frame.seen_actions
           /\ callers' = SubSeq(callers, 1, Len(callers) - 1)
    /\ pc' = "consume"
    /\ outcome' = "none"
    /\ last' = [op |-> "subreturn"]
    /\ UNCHANGED <<settings, commands, actions, action_groups, lists, calls,
                   actions0, fromfile_parse, namespace0, parses>>

\* the caller is done with the namespace and the leftover list it got, or
\* with the exception: the parser is idle again, for at most limit parses
Return(limit) ==
    /\ pc = "done"
    /\ parses < limit
    /\ pc' = "idle"
    /\ heap' = FreshNamespace
    /\ lists' = default_lists(actions, lists)
    /\ args' = <<>>
    /\ new_args' = <<>>
    /\ pos' = 0
    /\ files' = <<>>
    /\ argv' = <<>>
    /\ seen_actions' = {}
    /\ outcome' = "none"
    /\ actions0' = actions
    /\ fromfile_parse' = TRUE
    /\ namespace0' = FreshNamespace
    /\ parsing' = 0
    /\ callers' = <<>>
    /\ calls' = <<>>
    /\ last' = [op |-> "return"]
    /\ UNCHANGED <<settings, commands, actions, action_groups,
                   parses>>

\* get_ns_dest(namespace, dest) on the namespace the program holds, at most
\* limit times
Resolve(dests, limit) ==
    \E dest \in dests :
        LET trail == IF last.op = "get_ns_dest" THEN last.trail ELSE <<>>
            r == get_ns_dest(heap, Root, dest)
        IN  /\ pc = "idle"
            /\ Len(trail) < limit
            /\ heap' = r.heap
            /\ outcome' = IF r.raised THEN "raised" ELSE "ok"
            /\ last' = [op |-> "get_ns_dest", dest |-> dest, ns |-> r.ns,
                        key |-> r.key, trail |-> Append(trail, dest)]
            /\ UNCHANGED <<settings, commands, actions,
                           action_groups, lists, pc, args, new_args, pos, files,
                           argv, seen_actions, actions0, fromfile_parse,
                           namespace0, parses, nesting>>

\* a program declares store options, plain and dotted, and parses a command
\* line that may refer to configuration files
\* The configuration-file references a command line may carry.
ConfigRefs == {AtTok("toml", ConfFull), AtTok("json", ConfPartial)}

Init == InitWith({"", "@"}, {FALSE}, {FreshNamespace})

Next ==
    \/ AddArgument({<<"x">>, <<"g", "a">>}, {"store"}, BOOLEAN, MaxActions)
    \/ ParseKnownArgs(ConfigRefs, {FreshNamespace}, BOOLEAN, MaxArgs)
    \/ Dispatch
    \/ Leftover
    \/ Finish

Spec == Init /\ [][Next]_vars

\* a program declares store options of one to three segments and parses a
\* command line
InitStore == InitWith({""}, {FALSE}, {FreshNamespace})

NextStore ==
    \/ AddArgument({<<"x">>, <<"g", "a">>, <<"g", "a", "c">>}, {"store"},
                   {FALSE}, MaxActions)
    \/ ParseKnownArgs({}, {FreshNamespace}, {TRUE}, MaxArgs)
    \/ Dispatch
    \/ Finish

SpecStore == InitStore /\ [][NextStore]_vars

\* a program resolves dests, one after the other, on a namespace that is
\* empty or that it has filled
InitResolve == InitWith({""}, {FALSE}, Namespaces)

NextResolve == Resolve(Dests, MaxResolves)

SpecResolve == InitResolve /\ [][NextResolve]_vars

\* a program declares count flags, plain and dotted, and parses a command
\* line that repeats them, into a fresh namespace or into one of its own
InitCount == InitWith({""}, {FALSE}, {FreshNamespace})

NextCount ==
    \/ AddArgument({<<"x">>, <<"g", "a">>}, CountKinds, BOOLEAN, MaxActions)
    \/ ParseKnownArgs({WordTok}, Namespaces, {TRUE}, MaxOccurrences)
    \/ Dispatch
    \/ Leftover
    \/ Finish

SpecCount == InitCount /\ [][NextCount]_vars

\* a program declares list options, plain and dotted, and parses command
\* lines with them on one parser, time after time
InitList == InitWith({""}, {FALSE}, {FreshNamespace})

NextList ==
    \/ AddArgument({<<"x">>, <<"g", "a">>}, {"append", "append_const", "extend"},
                   {FALSE}, MaxActions)
    \/ ParseKnownArgs({}, {FreshNamespace}, {TRUE}, MaxArgs)
    \/ Dispatch
    \/ Finish
    \/ Return(MaxParses)

SpecList == InitList /\ [][NextList]_vars

\* the same with options that clear, next to those that do not
InitClear == InitWith({""}, {FALSE}, {FreshNamespace})

NextClear ==
    \/ AddArgument({<<"x">>, <<"g", "a">>},
                   {"clear_append", "clear_extend", "append", "extend"},
                   {FALSE}, MaxActions)
    \/ ParseKnownArgs({}, {FreshNamespace}, {TRUE}, MaxArgs)
    \/ Dispatch
    \/ Finish
    \/ Return(MaxParses)

SpecClear == InitClear /\ [][NextClear]_vars

\* a program declares a namespace option and options under it, and parses
\* command lines that give literals and single leaves
InitNs == InitWith({""}, {FALSE}, {FreshNamespace})

NextNs ==
    \/ AddArgument({<<"g">>, <<"g", "a">>}, {"store", "ns"}, {FALSE}, MaxActions)
    \/ ParseKnownArgs({}, {FreshNamespace}, {TRUE}, MaxArgs)
    \/ Dispatch
    \/ Finish

SpecNs == InitNs /\ [][NextNs]_vars

\* a program declares options and namespaces and sets defaults from
\* configurations, before any parse
\* The configuration objects handed to set_defaults_from_configs.
DeclConfs == {ConfFull, ConfPartial, ConfNoLeaf, ConfScalar}

InitDecl == InitWith({""}, {FALSE}, {FreshNamespace})

NextDecl ==
    \/ AddArgument({<<"x">>, <<"g", "a">>, <<"g", "b">>}, {"store"}, BOOLEAN,
                   MaxActions)
    \/ AddNamespace(NamespaceNames)
    \/ SetDefaultsFromConfigs(DeclConfs)

SpecDecl == InitDecl /\ [][NextDecl]_vars

\* a program declares options, with and without exit_on_void, and parses
\* command lines that are empty, or hold a config reference or a word
VoidTokens == {WordTok, AtTok("toml", ConfPartial)}

InitVoid == InitWith({"@"}, BOOLEAN, {FreshNamespace})

NextVoid ==
    \/ AddArgument({<<"x">>, <<"g", "a">>}, {"store", "count"}, BOOLEAN,
                   MaxActions)
    \/ ParseKnownArgs(VoidTokens, {FreshNamespace}, {TRUE}, MaxArgs)
    \/ Dispatch
    \/ Leftover
    \/ Finish

SpecVoid == InitVoid /\ [][NextVoid]_vars

\* a program declares sub-commands and their options, and then sets the
\* defaults from a configuration keyed by command name
CommandNames == {"status", "log"}

\* configurations for a parser with sub-commands: one with tables for
\* "status" and, under it, "log"; one with a table for "log" alone; one whose
\* "status" is no table
CmdConfFull ==
    Map("x" :> Val(3) @@
        "status" :> Map("x" :> Val(4) @@ "g" :> Map("a" :> Val(4)) @@
                        "log" :> Map("x" :> Val(5))))
CmdConfOther == Map("x" :> Val(4) @@ "log" :> Map("x" :> Val(6)))
CmdConfScalar == Map("status" :> Val(3))
CmdConfs == {CmdConfFull, CmdConfOther, CmdConfScalar}

InitCmd == InitWith({""}, {FALSE}, {FreshNamespace})

\* the program has not yet set defaults from a configuration
Declaring == last.op # "set_defaults_from_configs"

NextCmd ==
    \/ Declaring /\ AddSubparser(CommandNames, {None}, MaxCommands)
    \/ Declaring /\ AddCommandArgument({<<"x">>}, BOOLEAN, MaxActions)
    \/ Declaring /\ SetDefaultsFromConfigs(CmdConfs)

SpecCmd == InitCmd /\ [][NextCmd]_vars

\* a program adds sub-commands, to the parser and to its sub-commands, and
\* options of the sub-commands in between
InitSub == InitWith({""}, {FALSE}, {FreshNamespace})

NextSub ==
    \/ AddSubparser(CommandNames, {None}, MaxCommands)
    \/ AddCommandArgument({<<"x">>}, {FALSE}, MaxActions)

SpecSub == InitSub /\ [][NextSub]_vars

\* a program registers converters of its own and declares options whose
\* type is a name
TypeNames == {"py", "int", "unsupported", "__name__"}
RegisteredNames == {"int", "unsupported"}
RegisteredObjects == {Callable("converter"), Val(3)}

InitType == InitWith({""}, {FALSE}, {FreshNamespace})

NextType ==
    \/ Register(RegisteredNames, RegisteredObjects)
    \/ AddTypedArgument({<<"x">>, <<"g", "a">>}, TypeNames, MaxActions)

SpecType == InitType /\ [][NextType]_vars

\* a program declares options and parses command lines that refer to
\* configuration files: good ones, a missing one, one that is no JSON, and
\* Python modules that do not execute or define no `args`
NoArgs == [t |-> "noargs"]
LoadTokens ==
    {AtTok("toml", ConfFull), AtTok("toml", Unreadable), AtTok("json", Malformed),
     AtTok("py", ConfPartial), AtTok("py", Unreadable), AtTok("py", Malformed),
     AtTok("py", NoArgs)}

InitLoad == InitWith({"@"}, {FALSE}, {FreshNamespace})

NextLoad ==
    \/ AddArgument({<<"x">>, <<"g", "a">>}, {"store"}, {FALSE}, MaxActions)
    \/ ParseKnownArgs(LoadTokens, {FreshNamespace}, BOOLEAN, MaxArgs)
    \/ Dispatch
    \/ Finish

SpecLoad == InitLoad /\ [][NextLoad]_vars

\* a program declares options and parses command lines that mix their
\* options with config references, "@file.txt" argument files, the empty
\* string and other words, with and without a file-reference prefix
ScanTokens ==
    {AtTok("toml", ConfFull), AtTok("txt", ConfFull), AtTok("txt", Unreadable),
     WordTok, EmptyTok}

InitScan == InitWith({"", "@"}, {FALSE}, {FreshNamespace})

NextScan ==
    \/ AddArgument({<<"x">>, <<"g", "a">>}, {"store"}, {FALSE}, MaxActions)
    \/ ParseKnownArgs(ScanTokens, {FreshNamespace}, BOOLEAN, MaxArgs)
    \/ ReadArgsFile
    \/ Dispatch
    \/ Leftover
    \/ Finish

SpecScan == InitScan /\ [][NextScan]_vars

\* a program declares store options and parses command lines on which
\* several config references stand before, between and after the options
OrderRefs ==
    {AtTok("toml", ConfFull), AtTok("json", ConfOther), AtTok("toml", ConfNoLeaf)}

InitOrder == InitWith({"@"}, {FALSE}, {FreshNamespace})

NextOrder ==
    \/ AddArgument({<<"x">>, <<"g", "a">>}, {"store"}, {FALSE}, MaxActions)
    \/ ParseKnownArgs(OrderRefs, {FreshNamespace}, {TRUE}, MaxTokens)
    \/ Dispatch
    \/ Finish

SpecOrder == InitOrder /\ [][NextOrder]_vars

\* a program gives hooks to its parser and to the sub-command parsers it
\* makes, and parses command lines that name the options the hooks declare
\* and the sub-commands.  The hooks: the one of the tests, which declares
\* --bar (required) and --x, sets namespace.c and returns the list with a
\* config reference and "--x 2" added; one that declares --c and --g.a, sets
\* namespace.c and returns None; one that sets namespace.c and returns an
\* empty list; and one that declares --c and no more
HookTest ==
    Hook(<< <<(<<"bar">>), TRUE>>, <<(<<"x">>), FALSE>> >>,
         << <<"c", Val(3)>> >>,
         TokenList(TRUE, <<AtTok("toml", ConfPartial), FlagTok(<<"x">>, Val(2))>>))
HookQuiet ==
    Hook(<< <<(<<"c">>), FALSE>>, <<(<<"g", "a">>), FALSE>> >>,
         << <<"c", Val(3)>> >>, None)
HookDrop == Hook(<<>>, << <<"c", Val(3)>> >>, TokenList(FALSE, <<>>))
HookPlain == Hook(<< <<(<<"c">>), FALSE>> >>, <<>>, None)
Hooks == {None, HookTest, HookQuiet, HookDrop}
CommandHooks == {None, HookTest, HookPlain}

HookTokens ==
    {FlagTok(<<"bar">>, Val(1)), FlagTok(<<"c">>, Val(1)), CmdTok("status")}

InitHook == InitParser({"@"}, {FALSE}, Hooks, {FreshNamespace})

NextHook ==
    \/ AddSubparser({"status"}, CommandHooks, MaxCommands)
    \/ ParseKnownArgs(HookTokens, {FreshNamespace}, {TRUE}, MaxArgs)
    \/ Dispatch
    \/ Subcommand
    \/ SubReturn
    \/ Leftover
    \/ Finish
    \/ Return(MaxParses)

SpecHook == InitHook /\ [][NextHook]_vars

\* a program declares options, plain and dotted up to three segments,
\* required or not, and namespace options, and adds namespaces by name, in
\* any order
InitGroup == InitWith({""}, {FALSE}, {FreshNamespace})

NextGroup ==
    \/ AddArgument(Dests, {"store", "ns"}, BOOLEAN, MaxActions)
    \/ AddNamespace(NamespaceNames)

SpecGroup == InitGroup /\ [][NextGroup]_vars

\* a program declares store options, some under one prefix and one below
\* another, and parses command lines, with a config reference or without,
\* into a fresh namespace or into one it has filled; the parser has no hook
\* or one that sets namespace.g = Namespace(a=8)
HookNested == Hook(<<>>, << <<"g", Map("a" :> Val(8))>> >>, None)
SeedRefs == {AtTok("toml", ConfFull)}
SeedHooks == {None, HookNested}

InitSeed == InitParser({"@"}, {FALSE}, SeedHooks, {FreshNamespace})

NextSeed ==
    \/ AddArgument({<<"g", "a">>, <<"g", "b">>, <<"g", "a", "c">>}, {"store"},
                   BOOLEAN, MaxActions)
    \/ ParseKnownArgs(SeedRefs, Namespaces, {TRUE}, MaxArgs)
    \/ Dispatch
    \/ Finish

SpecSeed == InitSeed /\ [][NextSeed]_vars

\* a program declares required options and sub-commands with required
\* options, and then sets the defaults from configurations, one call after
\* the other
AlgebraConfs == {ConfFull, ConfPartial, ConfNoLeaf, ConfScalar, CmdConfFull}

InitAlgebra == InitWith({""}, {FALSE}, {FreshNamespace})

NextAlgebra ==
    \/ Declaring /\ AddArgument({<<"x">>, <<"g", "a">>, <<"g", "b">>}, {"store"},
                                {TRUE}, MaxActions)
    \/ Declaring /\ AddSubparser({"status"}, {None}, MaxCommands)
    \/ Declaring /\ AddCommandArgument({<<"x">>}, {TRUE}, MaxActions)
    \/ SetDefaultsFromConfigs(AlgebraConfs)

SpecAlgebra == InitAlgebra /\ [][NextAlgebra]_vars

\* a program declares store options, required or with a default, and
\* parses command lines with one parser, time after time, with a config
\* reference on some of them
ReparseRefs == {AtTok("toml", ConfFull)}

InitReparse == InitWith({"@"}, {FALSE}, {FreshNamespace})

NextReparse ==
    \/ AddArgument({<<"x">>, <<"g", "a">>}, {"store"}, BOOLEAN, MaxActions)
    \/ ParseKnownArgs(ReparseRefs, {FreshNamespace}, {TRUE}, MaxArgs)
    \/ Dispatch
    \/ Finish
    \/ Return(MaxParses)

SpecReparse == InitReparse /\ [][NextReparse]_vars

---------------------------------------------------------------------------
(* The help message: ArgumentParser.format_help and the formatter's        *)
(* add_arguments.  What is modelled of the text is which declarations it   *)
(* lists and whether a help string carries its "[default: ...]" note.      *)

\* a help string; note tells whether it holds a "[default: " note
Help(text, note) == [t |-> "help", text |-> text, note |-> note]

\* showable(obj): getattr(obj, "show", True)
showable(obj) == obj.show

\* the head of the loop in add_arguments: the compact help suppresses the
\* help of an action declared with show=False
hide(action, plus) ==
    IF ~plus /\ ~showable(action) THEN [action EXCEPT !.help = SUPPRESS]
    ELSE action

\* the default note add_arguments appends to the help string
note_default(action) ==
    IF action.help # SUPPRESS /\ action.default # None
                              /\ action.default # SUPPRESS
    THEN IF action.help = None
         THEN [action EXCEPT !.help = Help("", TRUE)]
         ELSE [action EXCEPT !.help.note = TRUE]
    ELSE action

\* one turn of the loop in add_arguments, before self.add_argument(action)
add_arguments(action, plus) == note_default(hide(action, plus))

\* the group that holds declaration i
GroupOf(groups, i) ==
    CHOOSE g \in 1..Len(groups) :
        \E m \in 1..Len(groups[g].members) : groups[g].members[m] = i

\* format_help(plus): the declarations after it, and the ones the text
\* lists: HelpFormatter.add_argument leaves out an action whose help is
\* SUPPRESS, and the section of a group the compact help does not show is
\* skipped after the help of each of its actions is suppressed
format_help(acts, groups, plus) ==
    LET skipped(i) == ~plus /\ ~showable(groups[GroupOf(groups, i)])
        after == [i \in 1..Len(acts) |->
                     IF skipped(i) THEN [acts[i] EXCEPT !.help = SUPPRESS]
                     ELSE add_arguments(acts[i], plus)]
    IN  [actions |-> after,
         listed |-> {i \in 1..Len(acts) :
                        ~skipped(i) /\ after[i].help # SUPPRESS}]

\* parser.add_argument("--dest", help="h", default=..., show=...)
AddArgumentShow(dests, defaults, shows, limit) ==
    \E dest \in dests, default \in defaults, show \in shows :
        LET action == [Action(dest, "store", default, FALSE, None)
                          EXCEPT !.show = show, !.help = Help("h", FALSE)]
            added == add_action(actions, action_groups, action)
        IN  /\ pc = "idle"
            /\ Len(actions) <= limit
            /\ \A i \in 1..Len(actions) : actions[i].dest # dest
            /\ actions' = added.actions
            /\ action_groups' = added.groups
            /\ outcome' = IF added.raised THEN "raised" ELSE "ok"
            /\ last' = [op |-> "add_argument", dest |-> dest, show |-> show]
            /\ UNCHANGED <<settings, commands, lists, parse_vars>>

\* parser.add_namespace(name, show=...)
AddNamespaceShow(names, shows) ==
    \E name \in names, show \in shows :
        LET made == add_namespace(action_groups, name)
        IN  /\ pc = "idle"
            /\ action_groups' =
                   IF made.raised THEN made.groups
                   ELSE [made.groups EXCEPT ![Len(made.groups)].show = show]
            /\ outcome' = IF made.raised THEN "raised" ELSE "ok"
            /\ last' = [op |-> "add_namespace", name |-> name, show |-> show]
            /\ UNCHANGED <<settings, commands, actions, lists, parse_vars>>

\* parser.format_help(plus=...)
FormatHelp(pluses) ==
    \E plus \in pluses :
        LET r == format_help(actions, action_groups, plus)
        IN  /\ pc = "idle"
            /\ actions' = r.actions
            /\ outcome' = "ok"
            /\ last' = [op |-> "format_help", plus |-> plus,
                        listed |-> r.listed]
            /\ UNCHANGED <<settings, commands, action_groups, lists,
                           parse_vars>>

\* a program declares options and a namespace, shown in the compact help or
\* not, and renders the help, compact or full, time after time
HelpDests == {<<"x">>, <<"g", "a">>, <<"g", "b">>}
HelpDefaults == {None, Val(0)}

InitHelp == InitWith({""}, {FALSE}, {FreshNamespace})

NextHelp ==
    \/ AddArgumentShow(HelpDests, HelpDefaults, BOOLEAN, MaxActions)
    \/ AddNamespaceShow({"g"}, BOOLEAN)
    \/ FormatHelp(BOOLEAN)

SpecHelp == InitHelp /\ [][NextHelp]_vars

\* a program sets a pre-parse hook, one that returns an empty token list or
\* one that adds a config reference to the list it is given, and parses
\* command lines that are empty, or hold a config reference or a word, with
\* and without exit_on_void
HookFill == Hook(<<>>, <<>>, TokenList(TRUE, <<AtTok("toml", ConfPartial)>>))
VoidHooks == {None, HookDrop, HookFill}

InitVoidHook == InitParser({"@"}, BOOLEAN, VoidHooks, {FreshNamespace})

NextVoidHook ==
    \/ AddArgument({<<"x">>, <<"g", "a">>}, {"store"}, BOOLEAN, MaxActions)
    \/ ParseKnownArgs(VoidTokens, {FreshNamespace}, {TRUE}, MaxArgs)
    \/ Dispatch
    \/ Leftover
    \/ Finish

SpecVoidHook == InitVoidHook /\ [][NextVoidHook]_vars

\* a program declares options and sets the defaults from configurations of
\* which some hold a value that is no mapping under the first segment of a
\* dotted dest
ConfMixed == Map("g" :> Val(3) @@ "x" :> Val(4))
ShapeConfs == {ConfFull, ConfScalar, ConfMixed}

InitShape == InitWith({""}, {FALSE}, {FreshNamespace})

NextShape ==
    \/ Declaring /\ AddArgument({<<"x">>, <<"g", "a">>, <<"g", "b">>}, {"store"},
                                BOOLEAN, MaxActions)
    \/ SetDefaultsFromConfigs(ShapeConfs)

SpecShape == InitShape /\ [][NextShape]_vars

\* a program declares dotted options of the kinds that set a value, among
\* them siblings under one prefix and a dest that is a prefix of another,
\* and parses a command line into a fresh namespace or into one of its own
FrameKinds == {"store", "store_const", "append", "count", "extend"}

InitFrame == InitWith({""}, {FALSE}, {FreshNamespace})

NextFrame ==
    \/ AddArgument({<<"g", "a">>, <<"g", "b">>, <<"g", "a", "c">>}, FrameKinds,
                   {FALSE}, MaxActions)
    \/ ParseKnownArgs({}, Namespaces, {TRUE}, MaxArgs)
    \/ Dispatch
    \/ Finish

SpecFrame == InitFrame /\ [][NextFrame]_vars

---------------------------------------------------------------------------
(* Reading a result, for the properties: none of these creates anything.   *)

Absent == [t |-> "absent"]

\* the value reached from obj along keys, Absent when the path breaks
RECURSIVE value_at(_, _, _)
value_at(h, obj, keys) ==
    IF keys = <<>> THEN obj
    ELSE IF obj.t = "ns" /\ Head(keys) \in DOMAIN h[obj.id]
    THEN value_at(h, h[obj.id][Head(keys)], Tail(keys))
    ELSE Absent

\* the value a configuration holds for a dest, Absent when it has none
RECURSIVE supplied(_, _)
supplied(conf, keys) ==
    IF keys = <<>> THEN conf
    ELSE IF conf.t = "map" /\ Head(keys) \in DOMAIN conf.m
    THEN supplied(conf.m[Head(keys)], Tail(keys))
    ELSE Absent

\* p is a prefix of d
IsPrefix(p, d) == Len(p) <= Len(d) /\ SubSeq(d, 1, Len(p)) = p

\* the non-empty proper prefixes of a dest
Prefixes(d) == {SubSeq(d, 1, n) : n \in 1..(Len(d) - 1)}

\* declaration i shares its path with another one: one dest is a prefix of
\* the other, so one is a leaf where the other needs a namespace
Collides(acts, i) ==
    \E j \in 1..Len(acts) :
        j # i /\ (IsPrefix(acts[j].dest, acts[i].dest)
                  \/ IsPrefix(acts[i].dest, acts[j].dest))

\* the last element of a non-empty sequence
Final(seq) == seq[Len(seq)]

\* the configurations this parse loaded, in token order
LoadedConfs ==
    IF fromfile_prefix_chars = "" \/ ~fromfile_parse THEN <<>>
    ELSE LET refs == SelectSeq(args, LAMBDA a : a.t = "at" /\ a.ext # "txt")
         IN  [k \in 1..Len(refs) |-> refs[k].conf]

\* the values the command line gave declaration i, in order
CliValues(i) ==
    LET occ == SelectSeq(new_args, LAMBDA a : a.t = "opt" /\ a.i = i)
    IN  [k \in 1..Len(occ) |-> occ[k].v]

\* a parse returned its namespace
Returned == pc = "done" /\ outcome = "ok"

---------------------------------------------------------------------------
(* C1.  Merge precedence within one parse (fresh namespace, fromfile_parse *)
(* on): for a declared store option with dest d, dotted or not, whose path *)
(* no other declaration shares, the result at d is the last command-line   *)
(* value when the option occurs on the command line; otherwise the value   *)
(* of the (rightmost) config reference that supplies d; and the default    *)
(* the declaration had when the parse began only when neither supplies d.  *)

C1_Expected(i) ==
    LET d == actions[i].dest
        giving == SelectSeq(LoadedConfs, LAMBDA c : supplied(c, d) # Absent)
    IN  IF CliValues(i) # <<>> THEN Final(CliValues(i))
        ELSE IF giving # <<>> THEN supplied(Final(giving), d)
        ELSE actions0[i].default

C1_MergePrecedence ==
    Returned =>
        \A i \in 2..Len(actions) :
            (/\ actions[i].kind = "store"
             /\ ~Collides(actions, i)
             /\ value_at(namespace0, Root, actions[i].dest) = Absent)
            => value_at(heap, Root, actions[i].dest) = C1_Expected(i)

\* "@conf --x 1" on a parser with --x and --g.a (default 0): x is the
\* command-line 1 although conf gives 3, g.a is conf's 3, not the default 0
C1_Witness ==
    /\ Returned
    /\ \E i, j \in 2..Len(actions) :
        /\ Len(actions[i].dest) = 1 /\ Len(actions[j].dest) = 2
        /\ CliValues(i) # <<>> /\ CliValues(j) = <<>>
        /\ LoadedConfs # <<>>
        /\ supplied(Final(LoadedConfs), actions[i].dest) = Val(3)
        /\ supplied(Final(LoadedConfs), actions[j].dest) = Val(3)
        /\ actions0[j].default = Val(0)
        /\ value_at(heap, Root, actions[i].dest) = Val(1)
        /\ value_at(heap, Root, actions[j].dest) = Val(3)

---------------------------------------------------------------------------
(* C2.  Read-after-write for store: whenever the store action has been     *)
(* applied with dest d (one segment or more) and value v, resolving d on   *)
(* the namespace returns a container and key whose attribute is v.         *)

\* this step is a call, which returned, of the action of a declaration
CalledKind(kinds) ==
    /\ last'.op = "call"
    /\ pos' = pos + 1
    /\ outcome' # "raised"
    /\ actions[last'.i].kind \in kinds

C2_StoreReadAfterWrite ==
    [][CalledKind({"store"}) =>
        LET r == get_ns_dest(heap', Root, actions[last'.i].dest)
        IN  /\ ~r.raised
            /\ hasattr(r.heap, r.ns, r.key)
            /\ getattr(r.heap, r.ns, r.key, Absent) = last'.values]_vars

\* a store to the three-segment dest g.a.c has been applied
C2_Witness ==
    /\ pc = "consume"
    /\ last.op = "call"
    /\ actions[last.i].kind = "store"
    /\ Len(actions[last.i].dest) = 3
    /\ value_at(heap, Root, actions[last.i].dest) = last.values

---------------------------------------------------------------------------
(* C3.  Resolver idempotence: resolving dotted paths that share prefixes   *)
(* on one root namespace, in either order, creates the namespace of each   *)
(* path prefix at most once; every later resolve reuses that node and no   *)
(* resolve replaces an existing intermediate namespace.                    *)

\* the path prefixes of the dests under which h holds a namespace
NodePaths(h, ds) ==
    {p \in UNION {Prefixes(d) : d \in ds} : value_at(h, Root, p).t = "ns"}

C3_Pair(h, d1, d2) ==
    LET r1 == get_ns_dest(h, Root, d1)
        r2 == get_ns_dest(r1.heap, Root, d2)
        o1 == get_ns_dest(h, Root, d2)
        o2 == get_ns_dest(o1.heap, Root, d1)
        missing == {p \in Prefixes(d1) \cup Prefixes(d2) :
                        value_at(h, Root, p) \in {Absent, None}}
    IN  (~r1.raised /\ ~r2.raised) =>
            \* an existing intermediate namespace is kept, by both resolves
            /\ \A p \in NodePaths(h, {d1, d2}) :
                   /\ value_at(r1.heap, Root, p) = value_at(h, Root, p)
                   /\ value_at(r2.heap, Root, p) = value_at(h, Root, p)
            \* the second resolve reuses what the first created
            /\ \A p \in Prefixes(d1) :
                   /\ value_at(r1.heap, Root, p) \notin {Absent, None}
                   /\ value_at(r2.heap, Root, p) = value_at(r1.heap, Root, p)
            \* one node per missing prefix, none twice
            /\ Len(r2.heap) = Len(h) + Cardinality(missing)
            \* resolving again creates nothing and returns the same container
            /\ get_ns_dest(r2.heap, Root, d1) = [r1 EXCEPT !.heap = r2.heap]
            \* the other order gives the same namespaces
            /\ ~o1.raised /\ ~o2.raised
            /\ Len(o2.heap) = Len(r2.heap)
            /\ NodePaths(o2.heap, {d1, d2}) = NodePaths(r2.heap, {d1, d2})

C3_ResolverIdempotence ==
    \A d1, d2 \in Dests : C3_Pair(heap, d1, d2)

\* "g.a.c", then "g.b", then "g.a" on an empty namespace: g and g.a are
\* there, once each, and the third resolve returns the node of the first
C3_Witness ==
    /\ last.op = "get_ns_dest"
    /\ last.trail = <<<<"g", "a", "c">>, <<"g", "b">>, <<"g", "a">>>>
    /\ outcome = "ok"
    /\ Len(heap) = 3
    /\ value_at(heap, Root, <<"g", "a">>).t = "ns"
    /\ last.ns = value_at(heap, Root, <<"g">>)

---------------------------------------------------------------------------
(* C4.  count: N >= 1 occurrences of a count flag in one parse leave       *)
(* exactly N at its dest, plain or dotted, when the dest was unset before  *)
(* the first occurrence: absent from the namespace, or None.               *)

\* nothing gives the dest of declaration i a value before its first
\* occurrence: neither the caller's namespace nor the declared default
UnsetBefore(i) ==
    /\ value_at(namespace0, Root, actions[i].dest) \in {Absent, None}
    /\ \/ actions0[i].default = None
       \/ actions0[i].default = SUPPRESS /\ Len(actions[i].dest) = 1
    /\ ~Collides(actions, i)

C4_CountOccurrences ==
    Returned =>
        \A i \in 2..Len(actions) :
            (actions[i].kind = "count" /\ CliValues(i) # <<>> /\ UnsetBefore(i))
            => value_at(heap, Root, actions[i].dest) = Val(Len(CliValues(i)))

\* a dotted count flag given three times, as in "-vvv", holds 3
C4_Witness ==
    /\ Returned
    /\ \E i \in 2..Len(actions) :
        /\ actions[i].kind = "count" /\ Len(actions[i].dest) = 2
        /\ UnsetBefore(i)
        /\ Len(CliValues(i)) = 3
        /\ value_at(heap, Root, actions[i].dest) = Val(3)

---------------------------------------------------------------------------
(* C5.  append, append_const and extend never mutate the declared default  *)
(* in place: for a declaration with a list default D, after any number of  *)
(* calls of the action in any number of parses, the default still has      *)
(* exactly the elements it was declared with, while the namespace value of *)
(* a parse where the option occurred is D followed by the supplied items.  *)

RECURSIVE Flatten(_)
Flatten(seqs) ==
    IF seqs = <<>> THEN <<>> ELSE Head(seqs).items \o Flatten(Tail(seqs))

\* the items the command line supplies to the list of declaration i
Supplied(i) ==
    IF actions[i].kind \in {"extend", "clear_extend"} THEN Flatten(CliValues(i))
    ELSE IF actions[i].kind = "append_const"
    THEN [k \in 1..Len(CliValues(i)) |-> actions[i].const]
    ELSE CliValues(i)

\* the elements of the declared default of declaration i
DeclaredItems(i) ==
    IF actions[i].default.t = "list" THEN ListLiteral.items ELSE <<>>

\* the elements of the list the namespace holds at the dest of declaration i
ResultItems(i) ==
    LET v == value_at(heap, Root, actions[i].dest)
    IN  IF v.t = "list" THEN lists[v.id] ELSE Absent

C5_DefaultNotMutated ==
    \A i \in 2..Len(actions) :
        (/\ actions[i].kind \in {"append", "append_const", "extend"}
         /\ actions[i].default.t = "list")
        => /\ lists[actions[i].default.id] = ListLiteral.items
           /\ (Returned /\ CliValues(i) # <<>>)
              => /\ ResultItems(i) = ListLiteral.items \o Supplied(i)
                 /\ value_at(heap, Root, actions[i].dest) # actions[i].default

\* the second parse of a parser whose append option has the default [0]:
\* "--g.a 1 --g.a 2" gives [0, 1, 2] again, and the default is still [0]
C5_Witness ==
    /\ Returned
    /\ parses = 2
    /\ \E i \in 2..Len(actions) :
        /\ actions[i].kind = "append" /\ actions[i].default.t = "list"
        /\ Len(actions[i].dest) = 2
        /\ ResultItems(i) = <<Val(0), Val(1), Val(2)>>
        /\ lists[actions[i].default.id] = <<Val(0)>>

---------------------------------------------------------------------------
(* C6.  clear_append / clear_extend: in a parse where an option declared   *)
(* with such an action and a default D occurs k >= 1 times, the first call *)
(* of the action discards D and starts from the empty list and each later  *)
(* call accumulates, so that the result is exactly the command-line values *)
(* in order; plain append / extend give D followed by those values.  The   *)
(* first call is the first one of the action instance ("received" is its   *)
(* attribute): the parse is one before which the option has not occurred.  *)

C6_ClearThenAccumulate ==
    Returned =>
        \A i \in 2..Len(actions) :
            CliValues(i) # <<>> =>
                /\ (/\ actions[i].kind \in {"clear_append", "clear_extend"}
                    /\ ~actions0[i].received)
                   => ResultItems(i) = Supplied(i)
                /\ actions[i].kind \in {"append", "extend"}
                   => ResultItems(i) = DeclaredItems(i) \o Supplied(i)

\* default [0] and "--x 1 --x 2" with clear_append: [1, 2], not [0, 1, 2]
C6_Witness ==
    /\ Returned
    /\ \E i \in 2..Len(actions) :
        /\ actions[i].kind = "clear_append"
        /\ actions[i].default.t = "list"
        /\ ~actions0[i].received
        /\ lists[actions[i].default.id] = <<Val(0)>>
        /\ CliValues(i) = <<Val(1), Val(2)>>
        /\ ResultItems(i) = <<Val(1), Val(2)>>

---------------------------------------------------------------------------
(* C7.  Namespace action merge: a JSON-object literal given to a namespace *)
(* action with dest foo sets every key of the object as an attribute under *)
(* foo, nested objects as nested namespaces; an explicit --foo.<key>       *)
(* option that follows it in the token list overrides the merged value of  *)
(* that leaf, and every merged key not explicitly given keeps its value    *)
(* from the literal.                                                       *)

\* the paths to the leaves of a mapping
RECURSIVE LeafPaths(_)
LeafPaths(conf) ==
    UNION {IF conf.m[k].t = "map"
           THEN {<<k>> \o p : p \in LeafPaths(conf.m[k])}
           ELSE {<<k>>} : k \in DOMAIN conf.m}

\* the positions in new_args where declaration i occurs
Occurrences(i) ==
    {k \in 1..Len(new_args) : new_args[k].t = "opt" /\ new_args[k].i = i}

Latest(ks) == CHOOSE k \in ks : \A o \in ks : o <= k

\* the explicit options for the path q that follow position k
Overrides(q, k) ==
    {o \in (k + 1)..Len(new_args) :
        /\ new_args[o].t = "opt"
        /\ actions[new_args[o].i].kind = "store"
        /\ actions[new_args[o].i].dest = q}

\* declaration i is a namespace option, given a literal in this parse, and
\* the other options are stores of leaves under it
MergedUnder(i) ==
    /\ actions[i].kind = "ns"
    /\ Occurrences(i) # {}
    /\ \A j \in 2..Len(actions) :
           j # i => /\ actions[j].kind = "store"
                    /\ IsPrefix(actions[i].dest, actions[j].dest)

C7_NamespaceMerge ==
    Returned =>
        \A i \in 2..Len(actions) :
            MergedUnder(i) =>
                LET k == Latest(Occurrences(i))
                    literal == new_args[k].v
                IN  \A p \in LeafPaths(literal) :
                        LET q == actions[i].dest \o p
                        IN  value_at(heap, Root, q) =
                                IF Overrides(q, k) # {}
                                THEN new_args[Latest(Overrides(q, k))].v
                                ELSE supplied(literal, p)

\* "--g {"a": 3, "d": 4, "n": {"c": 5}} --g.a 1": g.a is 1, g.d is 4 and
\* g.n.c is 5
C7_Witness ==
    /\ Returned
    /\ \E i, j \in 2..Len(actions) :
        /\ MergedUnder(i)
        /\ actions[i].dest = <<"g">> /\ actions[j].dest = <<"g", "a">>
        /\ new_args = <<OptTok(i, LiteralObject), OptTok(j, Val(1))>>
        /\ value_at(heap, Root, <<"g", "a">>) = Val(1)
        /\ value_at(heap, Root, <<"g", "d">>) = Val(4)
        /\ value_at(heap, Root, <<"g", "n", "c">>) = Val(5)

---------------------------------------------------------------------------
(* C8.  Namespace action error handling: when the literal given to a       *)
(* namespace action does not decode to an object ("1") or is malformed     *)
(* ("{'a'}"), the parse ends in the parse error of the parser (exit, non-  *)
(* zero), and no exception reaches the caller.                             *)

C8_NamespaceLiteralError ==
    [][(/\ last'.op = "call"
        /\ pos' = pos + 1
        /\ actions[last'.i].kind = "ns"
        /\ last'.values.t # "map")
       => (pc' = "done" /\ outcome' = "error: argument")]_vars

\* the parse of "--g 1" has ended in the error
C8_Witness ==
    /\ pc = "done"
    /\ outcome = "error: argument"
    /\ last.op = "call"
    /\ actions[last.i].kind = "ns"
    /\ last.values = Val(1)

---------------------------------------------------------------------------
(* C9.  Partial configuration: for every declaration with a dotted dest,   *)
(* if a path segment of the dest, intermediate or final, is absent from    *)
(* the configuration mapping, set_defaults_from_configs leaves the         *)
(* default and the required flag of that declaration unchanged, raises     *)
(* nothing for it, and goes on with the remaining declarations.            *)

\* the mapping reached along keys has no entry for one of them
RECURSIVE AbsentSegment(_, _)
AbsentSegment(conf, keys) ==
    /\ keys # <<>>
    /\ conf.t = "map"
    /\ \/ Head(keys) \notin DOMAIN conf.m
       \/ AbsentSegment(conf.m[Head(keys)], Tail(keys))

\* the walk along keys comes to a value that is no mapping before the last
\* key: not a partial configuration, but one of another shape
RECURSIVE NonMappingSegment(_, _)
NonMappingSegment(conf, keys) ==
    /\ keys # <<>>
    /\ \/ conf.t # "map"
       \/ /\ Head(keys) \in DOMAIN conf.m
          /\ NonMappingSegment(conf.m[Head(keys)], Tail(keys))

C9_PartialConfig ==
    [][last'.op = "set_defaults_from_configs" =>
        \A i \in 1..Len(actions) :
            (Len(actions[i].dest) > 1 /\ AbsentSegment(last'.conf, actions[i].dest))
            => /\ actions'[i].default = actions[i].default
               /\ actions'[i].required = actions[i].required
               /\ (\A j \in 1..Len(actions) :
                       ~NonMappingSegment(last'.conf, actions[j].dest))
                  => /\ outcome' = "ok"
                     /\ \A j \in 1..Len(actions) :
                            supplied(last'.conf, actions[j].dest) # Absent
                            => /\ actions'[j].default =
                                      supplied(last'.conf, actions[j].dest)
                               /\ last'.optionalize => ~actions'[j].required]_vars

\* {"g": {"b": 4}} on a parser with --g.a (default 0) and then --g.b: g.a
\* keeps 0 and g.b, the declaration after it, has 4
C9_Witness ==
    /\ last.op = "set_defaults_from_configs"
    /\ last.conf = ConfNoLeaf
    /\ outcome = "ok"
    /\ \E i, j \in 2..Len(actions) :
        /\ i < j
        /\ actions[i].dest = <<"g", "a">> /\ actions[i].default = Val(0)
        /\ actions[j].dest = <<"g", "b">> /\ actions[j].default = Val(4)

---------------------------------------------------------------------------
(* C10.  add_namespace(name) raises the ValueError "already exists"        *)
(* whenever a namespace group with exactly that name is registered, made   *)
(* by add_namespace or by the declaration of a dotted option; on that      *)
(* error the action groups, and the existing group with its members, are   *)
(* unchanged.                                                              *)

C10_NamespaceExists ==
    [][(/\ last'.op = "add_namespace"
        /\ NamespaceGroupsNamed(action_groups, last'.name) # {})
       => (outcome' = "raised" /\ action_groups' = action_groups)]_vars

\* add_namespace("g") has raised on a parser where "g" came with --g.a
C10_Witness ==
    /\ last = [op |-> "add_namespace", name |-> "g"]
    /\ outcome = "raised"
    /\ \E g \in NamespaceGroupsNamed(action_groups, "g"), i \in 2..Len(actions) :
        /\ action_groups[g].members = <<i>>
        /\ actions[i].dest = <<"g", "a">>
    /\ Cardinality(NamespaceGroupsNamed(action_groups, "g")) = 1

---------------------------------------------------------------------------
(* C11.  Void-input policy: a parse of an empty argument list that the     *)
(* grammar accepts (no declaration is required) leaves no leftover token   *)
(* and ends in the error "No arguments provided" when exit_on_void is      *)
(* set; when it is not set the same parse returns, and the namespace holds *)
(* the defaults of the declarations and nothing else.                      *)

\* the attribute names the defaults put on the node reached along path
DefaultNames(acts, path) ==
    {acts[i].dest[Len(path) + 1] : i \in {j \in 1..Len(acts) :
        /\ Len(acts[j].dest) > Len(path) + 1
        /\ IsPrefix(path, acts[j].dest)}}
    \cup {Join(acts[i].dest) : i \in {j \in 1..Len(acts) :
        /\ path = <<>>
        /\ acts[j].default # SUPPRESS}}
    \cup {Last(acts[i].dest) : i \in {j \in 1..Len(acts) :
        /\ Len(acts[j].dest) = Len(path) + 1
        /\ Len(acts[j].dest) > 1
        /\ IsPrefix(path, acts[j].dest)}}

\* the namespace h holds the defaults of acts, and nothing else
DefaultsOnly(h, acts) ==
    /\ \A i \in 1..Len(acts) :
        /\ acts[i].default # SUPPRESS
           => getattr(h, Root, Join(acts[i].dest), Absent) = acts[i].default
        /\ Len(acts[i].dest) > 1
           => value_at(h, Root, acts[i].dest) = acts[i].default
    /\ \A i \in 1..Len(acts) : \A p \in Prefixes(acts[i].dest) \cup {<<>>} :
        LET node == value_at(h, Root, p)
        IN  node.t = "ns" /\ DOMAIN h[node.id] = DefaultNames(acts, p)

\* the parse of an empty list has come to its end in the grammar
VoidParse ==
    /\ pc = "done"
    /\ last.op = "finish"
    /\ args = <<>>
    /\ \A i \in 1..Len(actions) : ~actions[i].required

C11_VoidPolicy ==
    VoidParse =>
        /\ argv = <<>>
        /\ exit_on_void => outcome = "error: No arguments provided"
        /\ ~exit_on_void => (outcome = "ok" /\ DefaultsOnly(heap, actions))

\* parse_args([]) on a parser with exit_on_void and --x (default 0) has
\* ended in the error
C11_Witness ==
    /\ VoidParse
    /\ exit_on_void
    /\ outcome = "error: No arguments provided"
    /\ \E i \in 2..Len(actions) :
        actions[i].dest = <<"x">> /\ actions[i].default = Val(0)

---------------------------------------------------------------------------
(* C12.  Sub-command default propagation: a set_defaults_from_configs call *)
(* that returns applies, to every sub-command parser registered at the     *)
(* time of the call whose name is a key of the configuration its parent    *)
(* was given, the mapping under that key as that parser's configuration,   *)
(* with the same optionalize flag, at every depth; a sub-command parser    *)
(* whose name is no key, and all below it, is left unchanged.              *)

\* the configuration the call hands to parser c when the root is given
\* conf: Absent when the name of c, or of a parser above it, is no key
RECURSIVE ConfFor(_, _, _)
ConfFor(cmds, c, conf) ==
    IF c = 0 THEN conf
    ELSE LET up == ConfFor(cmds, cmds[c].parent, conf)
         IN  IF up = Absent \/ up.t # "map" THEN Absent
             ELSE IF cmds[c].name \notin DOMAIN up.m THEN Absent
             ELSE up.m[cmds[c].name]

\* declaration new is declaration old after the configuration cf
SeededFrom(old, new, cf, optionalize) ==
    LET v == supplied(cf, old.dest)
    IN  IF v = Absent THEN new = old
        ELSE new = [old EXCEPT !.default = v,
                               !.required = IF optionalize THEN FALSE ELSE @]

C12_SubcommandDefaults ==
    [][(last'.op = "set_defaults_from_configs" /\ outcome' = "ok") =>
        /\ Len(commands') = Len(commands)
        /\ \A c \in 1..Len(commands) :
            LET cf == ConfFor(commands, c, last'.conf)
            IN  IF cf = Absent THEN commands'[c] = commands[c]
                ELSE /\ cf.t = "map"
                     /\ Len(commands'[c].actions) = Len(commands[c].actions)
                     /\ \A i \in 1..Len(commands[c].actions) :
                            SeededFrom(commands[c].actions[i],
                                       commands'[c].actions[i], cf,
                                       last'.optionalize)]_vars

\* the configuration with "status" and "status.log" tables on a parser with
\* the commands status, status/log and log, each with --x: 4 is the default
\* of status --x, 5 that of status/log --x, and log --x keeps its 0
C12_Witness ==
    /\ last.op = "set_defaults_from_configs"
    /\ last.conf = CmdConfFull
    /\ outcome = "ok"
    /\ \E c1, c2, c3 \in 1..Len(commands) :
        /\ commands[c1].parent = 0 /\ commands[c1].name = "status"
        /\ commands[c2].parent = c1 /\ commands[c2].name = "log"
        /\ commands[c3].parent = 0 /\ commands[c3].name = "log"
        /\ \E i \in 2..Len(commands[c1].actions) :
            /\ commands[c1].actions[i].dest = <<"x">>
            /\ commands[c1].actions[i].default = Val(4)
        /\ \E i \in 2..Len(commands[c2].actions) :
            /\ commands[c2].actions[i].dest = <<"x">>
            /\ commands[c2].actions[i].default = Val(5)
        /\ \E i \in 2..Len(commands[c3].actions) :
            /\ commands[c3].actions[i].dest = <<"x">>
            /\ commands[c3].actions[i].default = Val(0)

---------------------------------------------------------------------------
(* C13.  Sub-command destination naming: a parser made by add_subparser    *)
(* has the level of its parent plus one; the registry add_subparser makes  *)
(* on a parser of level 0 has dest "COMMAND", on a parser of level d >= 1  *)
(* dest "COMMAND{d+1}"; however many sub-commands a parser is given it has *)
(* one registry, which holds them all; and along a chain of nested         *)
(* sub-commands the dests of the registries are pairwise distinct.         *)

\* the registries among the declarations of parser p
Registries(p) ==
    LET mine == ActionsOf(actions, commands, p)
    IN  {i \in 1..Len(mine) : mine[i].kind = "parsers"}

\* the dest of the registry of parser p
RegistryDest(p) ==
    LET mine == ActionsOf(actions, commands, p)
    IN  mine[CHOOSE i \in Registries(p) : TRUE].dest

\* the sub-command parsers made on parser p
Children(p) == {c \in 1..Len(commands) : commands[c].parent = p}

\* the parsers above parser c, up to the parser of the program
RECURSIVE Ancestors(_)
Ancestors(c) ==
    IF c = 0 THEN {}
    ELSE {commands[c].parent} \cup Ancestors(commands[c].parent)

\* the dests by level, written out
DestOfLevel ==
    <<"COMMAND", "COMMAND2", "COMMAND3", "COMMAND4", "COMMAND5", "COMMAND6">>

C13_CommandDests ==
    /\ \A c \in 1..Len(commands) :
        commands[c].level = level_of(commands, commands[c].parent) + 1
    /\ \A p \in 0..Len(commands) :
        /\ Cardinality(Registries(p)) = IF Children(p) = {} THEN 0 ELSE 1
        /\ Children(p) # {}
           => RegistryDest(p) = <<DestOfLevel[level_of(commands, p) + 1]>>
    /\ \A c \in 1..Len(commands) : \A a \in Ancestors(c) :
        Children(c) # {} => RegistryDest(a) # RegistryDest(c)

\* a chain of three sub-commands: the registries are COMMAND, COMMAND2 and
\* COMMAND3, and the innermost parser has level 3
C13_Witness ==
    /\ Len(commands) = 3
    /\ \E c1, c2, c3 \in 1..3 :
        /\ commands[c1].parent = 0
        /\ commands[c2].parent = c1
        /\ commands[c3].parent = c2
        /\ commands[c3].level = 3
        /\ RegistryDest(0) = <<"COMMAND">>
        /\ RegistryDest(c1) = <<"COMMAND2">>
        /\ RegistryDest(c2) = <<"COMMAND3">>

---------------------------------------------------------------------------
(* C14.  Unsupported named type: add_argument with a str as type resolves  *)
(* it to the converter registered on the parser under that name if there   *)
(* is one, and to the builtin of that name otherwise; if what it finds is  *)
(* not callable the call raises the ValueError "Invalid type" there and    *)
(* then, no parse being needed, and the parser has no new option.          *)

\* this step is an add_argument whose type is a name
TypedDeclaration == last'.op = "add_argument" /\ "type" \in DOMAIN last'

\* what the name of the call resolves to: the registered object first
Resolved ==
    IF last'.type \in DOMAIN registries THEN registries[last'.type]
    ELSE builtins_getattr(last'.type)

C14_InvalidType ==
    [][TypedDeclaration =>
        IF Resolved.t = "callable"
        THEN /\ outcome' = "ok"
             /\ last'.type_func = Resolved
             /\ Len(actions') = Len(actions) + 1
             /\ actions'[Len(actions')].dest = last'.dest
             /\ actions'[Len(actions')].type = Str(last'.type)
        ELSE /\ outcome' = "raised: Invalid type"
             /\ actions' = actions
             /\ action_groups' = action_groups
             /\ parses' = parses /\ pc' = "idle"]_vars

\* add_argument("--x", type="unsupported") has raised on a parser that was
\* given no converter of that name, and the parser has the help option only
C14_Witness ==
    /\ last.op = "add_argument"
    /\ "type" \in DOMAIN last
    /\ last.type = "unsupported"
    /\ "unsupported" \notin DOMAIN registries
    /\ outcome = "raised: Invalid type"
    /\ Len(actions) = 1
    /\ parses = 0

---------------------------------------------------------------------------
(* C15.  Config load errors are user-facing: when a config reference of a  *)
(* command line names a file that is unreadable or malformed, of any       *)
(* format, or a Python module that does not execute or has no `args`, the  *)
(* parse ends in the error of the parser (diagnostic, exit) and no         *)
(* exception of the loader reaches the caller.                             *)

\* the config references this parse loads whose file gives no mapping
BadRefs ==
    {k \in 1..Len(args) : /\ is_config_ref(fromfile_prefix_chars, args[k])
                          /\ args[k].conf.t # "map"}

\* the parse has loaded a file that gives no mapping
LoadFailed == parses > 0 /\ fromfile_parse /\ BadRefs # {}

C15_LoadErrorsUserFacing ==
    LoadFailed =>
        /\ pc = "done"
        /\ outcome = "error: Cannot import"

\* the same for the Python modules alone, the references the code guards
C15_PyLoadErrors ==
    (LoadFailed /\ \A k \in BadRefs : args[k].ext = "py")
        => (pc = "done" /\ outcome = "error: Cannot import")

\* "@missing.toml": the exception of the loader has reached the caller
C15_Raised ==
    /\ LoadFailed
    /\ args = <<AtTok("toml", Unreadable)>>
    /\ pc = "done"
    /\ outcome = "raised"

---------------------------------------------------------------------------
(* C16.  Pre-scan token stream: the list handed to the grammar is the      *)
(* given list with the config references taken out and every other token   *)
(* left in the order given.  A token is a config reference exactly when a  *)
(* file-reference prefix is configured, the token is not empty, its first  *)
(* character is a prefix character and it does not end in ".txt"; tokens   *)
(* ending in ".txt", and every token when no prefix is configured, are     *)
(* handed over unchanged and never loaded as configuration.                *)

\* the claim's test, here where "@" is the one prefix character a parser
\* is given
ConfigReference(tok) ==
    /\ fromfile_prefix_chars # ""
    /\ tok # EmptyTok
    /\ tok.t = "at"
    /\ ~(tok.t = "at" /\ tok.ext = "txt")

PassedThrough(as) == SelectSeq(as, LAMBDA tok : ~ConfigReference(tok))

\* the step is the pre-scan of a parse, and it came to its end
Scanned == last'.op = "parse_known_args" /\ pc' = "consume"

C16_TokenStream ==
    [][Scanned =>
        /\ new_args' = PassedThrough(args')
        /\ (\A k \in 1..Len(args') : ~ConfigReference(args'[k]))
               => /\ new_args' = args'
                  /\ files' = <<>>
                  /\ \A i \in 1..Len(actions) :
                         actions'[i].default = actions[i].default]_vars

\* "@a.txt @c.toml ''" with the prefix "@" and a declared --x: the grammar
\* is handed "@a.txt ''", and x has its default from c.toml alone
C16_Witness ==
    /\ last.op = "parse_known_args" /\ pc = "consume"
    /\ fromfile_prefix_chars = "@" /\ fromfile_parse
    /\ Len(args) = MaxArgs /\ Len(new_args) = MaxArgs - 1
    /\ \E k \in 1..Len(new_args) : new_args[k] = AtTok("txt", ConfFull)
    /\ \E i \in 2..Len(actions) : actions[i].default = Val(3)

\* "@a.toml @a.txt" with no prefix configured: both tokens are handed over
C16_WitnessNoPrefix ==
    /\ last.op = "parse_known_args" /\ pc = "consume"
    /\ fromfile_prefix_chars = "" /\ fromfile_parse
    /\ new_args = <<AtTok("toml", ConfFull), AtTok("txt", ConfFull)>>
    /\ Len(actions) > 1

---------------------------------------------------------------------------
(* C17.  Config application order: the config references of one command    *)
(* line are loaded and merged into the defaults of the declarations from   *)
(* left to right, all before the grammar consumes a token.  A dest that    *)
(* more than one of them supplies has the value of the rightmost one as    *)
(* its default, wherever the references stand among the options, and no    *)
(* default changes while the tokens are consumed.                          *)

\* the default of a declaration with dest d and default dflt after the
\* configurations confs were applied
DefaultAfter(confs, d, dflt) ==
    LET giving == SelectSeq(confs, LAMBDA c : supplied(c, d) # Absent)
    IN  IF giving # <<>> THEN supplied(Final(giving), d) ELSE dflt

C17_ConfigOrder ==
    [][/\ Scanned =>
           /\ pos' = 0
           /\ \A i \in 2..Len(actions) :
                  actions'[i].default =
                      DefaultAfter(LoadedConfs', actions[i].dest,
                                   actions[i].default)
       /\ pc = "consume" =>
           \A i \in 1..Len(actions) :
               actions'[i].default = actions[i].default]_vars

\* "@full --x 1 @other" on a parser with --x and --g.a: both defaults are
\* other's 4 before --x is consumed
C17_Witness ==
    /\ last.op = "parse_known_args" /\ pc = "consume" /\ pos = 0
    /\ Len(args) = 3
    /\ args[1] = AtTok("toml", ConfFull)
    /\ args[2].t = "opt"
    /\ args[3] = AtTok("json", ConfOther)
    /\ Len(actions) = 3
    /\ \A i \in 2..Len(actions) : actions[i].default = Val(4)

---------------------------------------------------------------------------
(* C18.  Pre-parse hook: a callable pre_parse of a parser, top-level or     *)
(* sub-command, runs exactly once in every parse_known_args call of that   *)
(* parser, before the pre-scan, the seeding of the dotted defaults and the *)
(* consumption of tokens.  The options it declares are recognised in that  *)
(* same parse; a list it returns is the token list of the rest of the      *)
(* parse, and the given list stays when it returns None; the attributes it *)
(* writes on the namespace are in the result unless a matched option sets  *)
(* them.                                                                   *)

\* the dests a hook declares, and the list it leaves for given tokens
Declared(hook) == {hook.declares[k][1] : k \in 1..Len(hook.declares)}
ListAfter(hook, given) ==
    IF hook.returns = None THEN given
    ELSE IF hook.returns.extends THEN given \o hook.returns.items
    ELSE hook.returns.items

\* the step starts a parse_known_args call, of the parser parsing'
Entering ==
    \/ last'.op = "parse_known_args"
    \/ last'.op = "subcommand" /\ Len(calls') = Len(calls) + 1

\* the configurations among tokens that a parser with a prefix loads
ConfsIn(prefix_chars, tokens) ==
    LET refs == SelectSeq(tokens, LAMBDA a : /\ prefix_chars # ""
                                             /\ a.t = "at" /\ a.ext # "txt")
    IN  [k \in 1..Len(refs) |-> refs[k].conf]

\* the call runs the hook once, on the given tokens and before the rest:
\* the declarations are there, the pre-scan works on the list the hook
\* left and gives its files' values to the declarations of the hook, the
\* dotted ones are seeded, and the attributes are written
HookFirst ==
    LET p == parsing'
        hk == hook_of(pre_parse, commands, p)
        prefix == prefix_of(fromfile_prefix_chars, p)
        entry == calls'[Len(calls')]
        mine == ActionsOf(actions', commands', p)
        clash == \E i \in 1..Len(ActionsOf(actions, commands, p)) :
                     ActionsOf(actions, commands, p)[i].dest \in Declared(hk)
    IN  /\ entry.parser = p
        /\ entry.hooks = IF callable(hk) THEN 1 ELSE 0
        /\ ~callable(hk) => args' = entry.given
        /\ (callable(hk) /\ ~clash /\ pc' = "consume") =>
            /\ args' = ListAfter(hk, entry.given)
            /\ new_args' = SelectSeq(args', LAMBDA a : ~(/\ prefix # ""
                                                       /\ a.t = "at"
                                                       /\ a.ext # "txt"))
            /\ \A d \in Declared(hk) :
                /\ \E i \in 1..Len(mine) :
                    /\ mine[i].dest = d
                    /\ mine[i].default =
                           DefaultAfter(ConfsIn(prefix, args'), d, None)
                /\ value_at(heap', Root, d) # Absent
            /\ \A k \in 1..Len(hk.writes) :
                   value_at(heap', Root, <<hk.writes[k][1]>>) = hk.writes[k][2]

\* the next token names an option the hook of the running parser declared:
\* the grammar calls its action, which stores the value
Recognised ==
    LET hk == hook_of(pre_parse, commands, parsing)
        tok == new_args[pos + 1]
    IN  (/\ pc = "consume" /\ pos < Len(new_args)
         /\ callable(hk)
         /\ tok.t = "flag" /\ tok.dest \in Declared(hk))
        => (last'.op = "call" /\ value_at(heap', Root, tok.dest) = tok.v)

\* the attribute names a sub-command called after the k-th call of the
\* parse sets on the namespace of its caller: the first segments of the
\* dests it declares, and what its hook writes
SetLater(k) ==
    UNION {LET q == calls[j].parser
               hk == hook_of(pre_parse, commands, q)
           IN  {commands[q].actions[i].dest[1] :
                    i \in 1..Len(commands[q].actions)}
               \cup (IF callable(hk)
                     THEN {hk.writes[w][1] : w \in 1..Len(hk.writes)}
                     ELSE {}) : j \in (k + 1)..Len(calls)}

\* the tokens of the k-th call, after its hook, hold an option for a name
Names(k, name) ==
    LET hk == hook_of(pre_parse, commands, calls[k].parser)
        tokens == IF callable(hk) THEN ListAfter(hk, calls[k].given)
                  ELSE calls[k].given
    IN  \E n \in 1..Len(tokens) :
            \/ tokens[n].t = "opt"
            \/ tokens[n].t = "flag" /\ tokens[n].dest = <<name>>

\* the parse of the top-level parser returns: what the hooks of its calls
\* wrote is in the namespace
Written ==
    (last'.op = "finish" /\ parsing = 0 /\ outcome' = "ok") =>
        \A k \in 1..Len(calls) :
            LET hk == hook_of(pre_parse, commands, calls[k].parser)
            IN  callable(hk) =>
                    \A w \in 1..Len(hk.writes) :
                        (/\ ~Names(k, hk.writes[w][1])
                         /\ hk.writes[w][1] \notin SetLater(k))
                        => value_at(heap', Root, <<hk.writes[w][1]>>)
                               = hk.writes[w][2]

C18_PreParseHook ==
    [][/\ Entering => HookFirst
       /\ Recognised
       /\ Written]_vars

\* "status --bar 1" on a parser whose sub-command status has the hook of
\* the tests: bar is 1, x is the 2 of the "--x 2" the hook added, and c is
\* the 3 the hook wrote
C18_Witness ==
    /\ pc = "done" /\ outcome = "ok" /\ parsing = 0
    /\ pre_parse = None
    /\ Len(commands) = 1 /\ commands[1].pre_parse = HookTest
    /\ Len(calls) = 2 /\ calls[2].hooks = 1
    /\ calls[1].given = <<CmdTok("status"), FlagTok(<<"bar">>, Val(1))>>
    /\ value_at(heap, Root, <<"bar">>) = Val(1)
    /\ value_at(heap, Root, <<"x">>) = Val(2)
    /\ value_at(heap, Root, <<"c">>) = Val(3)

\* "--bar 1" on a parser with the hook of the tests itself: the config
\* reference the hook added gave x the default 4, and "--x 2" then set x
C18_WitnessTop ==
    /\ pc = "done" /\ outcome = "ok" /\ parsing = 0
    /\ pre_parse = HookTest /\ commands = <<>>
    /\ calls[1].given = <<FlagTok(<<"bar">>, Val(1))>>
    /\ \E i \in 1..Len(actions) :
           actions[i].dest = <<"x">> /\ actions[i].default = Val(4)
    /\ value_at(heap, Root, <<"x">>) = Val(2)
    /\ value_at(heap, Root, <<"c">>) = Val(3)

---------------------------------------------------------------------------
(* C19.  Grouping by longest prefix: a declared option with a dotted dest  *)
(* k1.k2...kn goes into the existing namespace group whose name is the     *)
(* longest proper dot-prefix k1...ki of the dest (i from n-1 down to 1);   *)
(* when there is none, a new namespace group named k1 is made and gets it. *)
(* An option with a plain dest that is no namespace option goes to the     *)
(* "required arguments" group when it is required and to the default       *)
(* group of options otherwise.                                             *)

\* the groups that hold declaration i
Holding(groups, i) ==
    {g \in 1..Len(groups) :
        \E m \in 1..Len(groups[g].members) : groups[g].members[m] = i}

\* the proper prefixes of a dest that name a namespace group
NamedPrefixes(groups, d) ==
    {q \in Prefixes(d) : NamespaceGroupsNamed(groups, Join(q)) # {}}

\* the longest of a non-empty set of prefixes
Longest(qs) == CHOOSE q \in qs : \A o \in qs : Len(o) <= Len(q)

\* the step has declared an option, the last of actions'
Added == last'.op = "add_argument" /\ Len(actions') = Len(actions) + 1

C19_LongestPrefix ==
    [][Added =>
        LET i == Len(actions')
            act == actions'[i]
            named == NamedPrefixes(action_groups, act.dest)
        IN  /\ Cardinality(Holding(action_groups', i)) = 1
            /\ (Len(act.dest) > 1 /\ act.kind # "ns" /\ named # {}) =>
                /\ Len(action_groups') = Len(action_groups)
                /\ \A g \in Holding(action_groups', i) :
                    /\ action_groups'[g].type = "namespace"
                    /\ action_groups'[g].name = Join(Longest(named))
            /\ (Len(act.dest) > 1 /\ act.kind # "ns" /\ named = {}) =>
                /\ Len(action_groups') = Len(action_groups) + 1
                /\ Holding(action_groups', i) = {Len(action_groups')}
                /\ action_groups'[Len(action_groups')].type = "namespace"
                /\ action_groups'[Len(action_groups')].name = act.dest[1]
                /\ action_groups'[Len(action_groups')].members = <<i>>
            /\ (Len(act.dest) = 1 /\ act.kind # "ns") =>
                /\ Len(action_groups') = Len(action_groups)
                /\ Holding(action_groups', i) =
                       {IF act.required THEN RequiredActions ELSE Optionals}]_vars

\* --g.a.c declared where the namespaces "g" and "g.a" exist: it is in "g.a"
C19_Witness ==
    /\ last.op = "add_argument" /\ last.dest = <<"g", "a", "c">>
    /\ NamespaceGroupsNamed(action_groups, "g") # {}
    /\ \E g \in NamespaceGroupsNamed(action_groups, "g.a") :
           action_groups[g].members = <<Len(actions)>>
    /\ actions[Len(actions)].dest = <<"g", "a", "c">>
    /\ actions[Len(actions)].kind = "store"

---------------------------------------------------------------------------
(* C20.  Namespace group invariants: after any sequence of add_namespace   *)
(* and add_argument calls on a parser, no two namespace groups have the    *)
(* same name, and every declaration a namespace group holds has a dest of  *)
(* which the name of the group is a dot-prefix.                            *)

C20_NamespaceGroups ==
    /\ \A g, o \in 1..Len(action_groups) :
        (/\ action_groups[g].type = "namespace"
         /\ action_groups[o].type = "namespace"
         /\ action_groups[g].name = action_groups[o].name) => g = o
    /\ \A g \in 1..Len(action_groups) : action_groups[g].type = "namespace" =>
        \A m \in 1..Len(action_groups[g].members) :
            LET d == actions[action_groups[g].members[m]].dest
            IN  \E n \in 1..Len(d) :
                    Join(SubSeq(d, 1, n)) = action_groups[g].name

\* the namespaces "g.a" and "g" with --g.a.c in the first and --g.b in the
\* second
C20_Witness ==
    /\ \E g \in NamespaceGroupsNamed(action_groups, "g.a") :
        \E m \in 1..Len(action_groups[g].members) :
            actions[action_groups[g].members[m]].dest = <<"g", "a", "c">>
    /\ \E g \in NamespaceGroupsNamed(action_groups, "g") :
        \E m \in 1..Len(action_groups[g].members) :
            actions[action_groups[g].members[m]].dest = <<"g", "b">>

---------------------------------------------------------------------------
(* C21.  Dotted-default seeding: when token consumption begins, every      *)
(* declaration with a dotted dest, whose path no other declaration shares, *)
(* has at that path the value that was present before seeding (from the    *)
(* caller's namespace or written by the pre-parse hook) when there was     *)
(* one, and otherwise its default, as merged from the configurations; and  *)
(* an option the command line never matches ends the parse with that same  *)
(* value.                                                                  *)

\* the value the hook of this parse left at the path d, Absent when it
\* wrote nothing there
Hooked(d) ==
    IF ~callable(pre_parse) THEN Absent
    ELSE LET w == pre_parse.writes
             on == {k \in 1..Len(w) : w[k][1] = d[1]}
         IN  IF on = {} THEN Absent
             ELSE supplied(w[CHOOSE k \in on : \A o \in on : o <= k][2], Tail(d))

\* the value at the path d before seeding, Absent when there is none
Present(d) ==
    IF callable(pre_parse) /\ \E k \in 1..Len(pre_parse.writes) :
                                  pre_parse.writes[k][1] = d[1]
    THEN Hooked(d)
    ELSE value_at(namespace0, Root, d)

\* the dotted declarations whose path is their own
OwnDotted ==
    {i \in 2..Len(actions) : Len(actions[i].dest) > 1 /\ ~Collides(actions, i)}

SeededAt(i) ==
    value_at(heap, Root, actions[i].dest) =
        IF Present(actions[i].dest) # Absent THEN Present(actions[i].dest)
        ELSE actions[i].default

C21_DottedSeeding ==
    /\ (pc = "consume" /\ pos = 0) => \A i \in OwnDotted : SeededAt(i)
    /\ Returned => \A i \in OwnDotted : CliValues(i) = <<>> => SeededAt(i)

\* "@conf" parsed into Namespace(g=Namespace(a=7)) by a parser with --g.a
\* and --g.b: g.a is still 7, and g.b is the 3 the configuration gave as
\* default
C21_Witness ==
    /\ Returned
    /\ LoadedConfs # <<>>
    /\ \E i, j \in OwnDotted :
        /\ actions[i].dest = <<"g", "a">> /\ actions[j].dest = <<"g", "b">>
        /\ CliValues(i) = <<>> /\ CliValues(j) = <<>>
        /\ value_at(namespace0, Root, <<"g", "a">>) = Val(7)
        /\ actions[i].default = Val(3)
        /\ value_at(heap, Root, <<"g", "a">>) = Val(7)
        /\ value_at(heap, Root, <<"g", "b">>) = Val(3)

\* the same when the hook wrote namespace.g = Namespace(a=8)
C21_WitnessHook ==
    /\ Returned
    /\ callable(pre_parse)
    /\ \E i \in OwnDotted :
        /\ actions[i].dest = <<"g", "a">>
        /\ CliValues(i) = <<>>
        /\ value_at(heap, Root, <<"g", "a">>) = Val(8)

---------------------------------------------------------------------------
(* C22.  Resolver collision with a scalar: when the store action is        *)
(* applied with a dotted dest and a proper prefix of the dest holds a      *)
(* stored scalar, the resolver replaces the scalar by a fresh namespace    *)
(* and the store succeeds: the call returns and the dest holds the value.  *)

\* a proper prefix of the dest d holds a scalar in the namespace
ScalarUnder(h, d) ==
    \E q \in Prefixes(d) : value_at(h, Root, q).t = "val"

\* this step is a call of the store action of a dotted declaration under
\* whose path a scalar is stored
StoreOverScalar ==
    /\ last'.op = "call"
    /\ pos' = pos + 1
    /\ actions[last'.i].kind = "store"
    /\ ScalarUnder(heap, actions[last'.i].dest)

C22_ScalarOverwritten ==
    [][StoreOverScalar =>
        /\ outcome' # "raised"
        /\ value_at(heap', Root, actions[last'.i].dest) = last'.values]_vars

\* what the call does instead: it raises, and the namespace is as it was
C22_ScalarRaises ==
    [][StoreOverScalar => outcome' = "raised" /\ heap' = heap]_vars

\* "--g.a 1 --g.a.c 2": the second store met the 1 under g.a and raised
C22_Raised ==
    /\ pc = "done"
    /\ outcome = "raised"
    /\ last.op = "call"
    /\ actions[last.i].dest = <<"g", "a", "c">>
    /\ value_at(heap, Root, <<"g", "a">>) = Val(1)

---------------------------------------------------------------------------
(* C23.  Keep flag: with fromfile_keep set, the leftover list a parse      *)
(* returns begins with the config references of its token list, each as    *)
(* given and in the order given, and the grammar's own unrecognised tokens *)
(* follow; no config reference is handed to the grammar.  With             *)
(* fromfile_keep unset no config reference is in the leftover list.        *)

\* the fromfile_keep argument of the parse in progress
Kept == calls[1].keep

\* the config references of the token list, in order
References == SelectSeq(args, ConfigReference)

C23_KeepFlag ==
    Returned =>
        /\ \A k \in 1..Len(new_args) : ~ConfigReference(new_args[k])
        /\ Kept => /\ Len(argv) >= Len(References)
                   /\ SubSeq(argv, 1, Len(References)) = References
                   /\ \A k \in (Len(References) + 1)..Len(argv) :
                          ~ConfigReference(argv[k])
        /\ ~Kept => \A k \in 1..Len(argv) : ~ConfigReference(argv[k])

\* "word @c.toml" parsed with fromfile_keep: the leftover list is
\* "@c.toml word"
C23_Witness ==
    /\ Returned
    /\ Kept
    /\ fromfile_prefix_chars = "@"
    /\ args = <<WordTok, AtTok("toml", ConfFull)>>
    /\ argv = <<AtTok("toml", ConfFull), WordTok>>

\* the same without fromfile_keep: the leftover list is "word"
C23_WitnessDropped ==
    /\ Returned
    /\ ~Kept
    /\ fromfile_prefix_chars = "@"
    /\ args = <<WordTok, AtTok("toml", ConfFull)>>
    /\ argv = <<WordTok>>

---------------------------------------------------------------------------
(* C24.  Default-merge algebra: a set_defaults_from_configs call with the  *)
(* configuration of the call before leaves every declaration, of the       *)
(* parser and of its sub-commands, as that call left it; and two calls     *)
(* with configurations that supply no declaration in common give the same  *)
(* declarations in either order.                                           *)

\* the declarations after parser.set_defaults_from_configs(conf)
Applied(acts, cmds, conf, optionalize) ==
    LET r == set_defaults_from_configs(acts, cmds, 0, conf, optionalize)
    IN  [actions |-> r.actions, commands |-> r.commands]

\* the declarations of parser p the configuration supplies
SuppliedBy(acts, cmds, p, conf) ==
    LET cf == ConfFor(cmds, p, conf)
        mine == ActionsOf(acts, cmds, p)
    IN  IF cf = Absent THEN {}
        ELSE {i \in 1..Len(mine) : supplied(cf, mine[i].dest) # Absent}

\* the two configurations supply no declaration in common
Independent(acts, cmds, c1, c2) ==
    \A p \in 0..Len(cmds) :
        SuppliedBy(acts, cmds, p, c1) \cap SuppliedBy(acts, cmds, p, c2) = {}

C24_MergeAlgebra ==
    [][last'.op = "set_defaults_from_configs" =>
        LET conf == last'.conf
            opt == last'.optionalize
        IN  /\ Applied(actions', commands', conf, opt)
                   = [actions |-> actions', commands |-> commands']
            /\ \A other \in AlgebraConfs :
                   Independent(actions, commands, conf, other) =>
                       LET first == Applied(actions, commands, other, opt)
                       IN  Applied(first.actions, first.commands, conf, opt)
                               = Applied(actions', commands', other, opt)]_vars

\* the configuration for x, g.a and g.b, given a second time to a parser
\* with --x and --g.a whose defaults it has set to 3
C24_Witness ==
    /\ last.op = "set_defaults_from_configs"
    /\ last.conf = ConfFull
    /\ outcome = "ok"
    /\ Len(actions) = 3
    /\ \A i \in 2..3 : actions[i].default = Val(3) /\ ~actions[i].required
    /\ Applied(actions, commands, ConfFull, TRUE)
           = [actions |-> actions, commands |-> commands]

\* the configuration for x after the one for g.b, on a parser with --x and
\* --g.b: x is 4 and g.b is 4, as in the other order
C24_WitnessOrder ==
    /\ last.op = "set_defaults_from_configs"
    /\ last.conf = ConfPartial
    /\ outcome = "ok"
    /\ \E i, j \in 2..Len(actions) :
        /\ actions[i].dest = <<"x">> /\ actions[i].default = Val(4)
        /\ actions[j].dest = <<"g", "b">> /\ actions[j].default = Val(4)
    /\ Independent(actions, commands, ConfPartial, ConfNoLeaf)

---------------------------------------------------------------------------
(* C25.  Clear actions across repeated parses: in every parse of a parser  *)
(* in which an option declared with clear_append or clear_extend and a     *)
(* default D occurs, the first parse or a later one, the result is exactly *)
(* the command-line values of that parse, without D.                       *)

C25_ClearEveryParse ==
    Returned =>
        \A i \in 2..Len(actions) :
            (/\ actions[i].kind \in {"clear_append", "clear_extend"}
             /\ CliValues(i) # <<>>)
            => ResultItems(i) = Supplied(i)

\* what a parse after the first occurrence gives instead: D and the values
C25_LaterParseKeepsDefault ==
    Returned =>
        \A i \in 2..Len(actions) :
            (/\ actions[i].kind \in {"clear_append", "clear_extend"}
             /\ CliValues(i) # <<>>
             /\ actions0[i].received)
            => ResultItems(i) = DeclaredItems(i) \o Supplied(i)

\* default [0] and "--x 1" parsed a second time with clear_append: [0, 1]
C25_SecondParse ==
    /\ Returned
    /\ parses = 2
    /\ \E i \in 2..Len(actions) :
        /\ actions[i].kind = "clear_append"
        /\ actions[i].default.t = "list"
        /\ lists[actions[i].default.id] = <<Val(0)>>
        /\ actions0[i].received
        /\ CliValues(i) = <<Val(1)>>
        /\ ResultItems(i) = <<Val(0), Val(1)>>

---------------------------------------------------------------------------
(* C26.  Parse independence from earlier config references: a parse whose  *)
(* tokens hold no config reference, also one after a parse that held one,  *)
(* gives every option its command line does not match the default it was   *)
(* declared with, and ends in the error for a missing required option when *)
(* such an option was declared required.                                   *)

\* the parse ended, with a namespace or with the error for a required
\* option
Ended == pc = "done" /\ outcome \in {"ok", "error: required"}

C26_ParseIndependence ==
    (Ended /\ LoadedConfs = <<>>) =>
        \A i \in 2..Len(actions) :
            CliValues(i) = <<>> =>
                IF actions[i].declared.required
                THEN outcome = "error: required"
                ELSE outcome = "ok" =>
                         value_at(heap, Root, actions[i].dest)
                             = actions[i].declared.default

\* what such a parse gives instead: the default and the required flag the
\* declaration has when the parse begins, as the last merge left them
C26_MergedDefaultsStay ==
    (Ended /\ LoadedConfs = <<>>) =>
        \A i \in 2..Len(actions) :
            CliValues(i) = <<>> =>
                IF actions0[i].required
                THEN outcome = "error: required"
                ELSE outcome = "ok" =>
                         value_at(heap, Root, actions[i].dest)
                             = actions0[i].default

\* --x declared required: after a parse of "@conf", the parse of an empty
\* command line returns x = 3
C26_SecondParse ==
    /\ Returned
    /\ parses = 2
    /\ args = <<>>
    /\ \E i \in 2..Len(actions) :
        /\ actions[i].dest = <<"x">>
        /\ actions[i].declared.required
        /\ value_at(heap, Root, <<"x">>) = Val(3)

---------------------------------------------------------------------------
(* C27.  Help rendering does not change visibility: whatever format_help   *)
(* calls came before, compact or full, format_help(plus=True) lists every  *)
(* declared option, the ones declared with show=False and the ones of a    *)
(* group declared with show=False included.                                *)

\* the step is a format_help(plus=True)
FullHelp == last'.op = "format_help" /\ last'.plus

C27_FullHelpListsAll ==
    [][FullHelp => last'.listed = 1..Len(actions)]_vars

\* what the full help lists: the declarations whose help no earlier compact
\* help has suppressed
C27_FullHelpListsUnsuppressed ==
    [][FullHelp => last'.listed
                       = {i \in 1..Len(actions) : actions[i].help # SUPPRESS}]_vars

\* the declarations the compact help leaves out: declared with show=False,
\* or in a group declared so
Hidden(i) ==
    ~showable(actions[i]) \/ ~showable(action_groups[GroupOf(action_groups, i)])

\* a full help, rendered after a compact one, that leaves out a declaration
C27_HiddenForGood ==
    /\ last.op = "format_help"
    /\ last.plus
    /\ \E i \in 2..Len(actions) : Hidden(i) /\ i \notin last.listed

\* the compact help leaves out the hidden declarations and lists the others
C27_CompactHelp ==
    [][(last'.op = "format_help" /\ ~last'.plus) =>
           last'.listed = {i \in 1..Len(actions) : ~Hidden(i)}]_vars

---------------------------------------------------------------------------
(* C28.  The void check uses the token list in effect after the pre-parse  *)
(* hook: a parse ends in "No arguments provided" exactly when exit_on_void *)
(* is set, that list is empty and no required option is missing.  A list   *)
(* of config references alone, and an empty list the hook replaced by a    *)
(* non-empty one, do not end in the error; the check comes after the       *)
(* grammar has consumed the tokens, with the config defaults merged.       *)

\* the parse ended in the void error
VoidError == outcome = "error: No arguments provided"

\* the hook returned a list that is not empty
HookFilled ==
    /\ callable(pre_parse)
    /\ pre_parse.returns # None
    /\ pre_parse_args(calls[1].given, run_hook(pre_parse, actions0,
                          action_groups, calls[1].given, heap).result) # <<>>

C28_VoidAfterHook ==
    (pc = "done" /\ last.op = "finish") =>
        /\ VoidError <=>
               /\ exit_on_void
               /\ args = <<>>
               /\ \A i \in 1..Len(actions) :
                      actions[i].required => i \in seen_actions
        /\ VoidError => pos = Len(new_args)
        /\ (args # <<>> /\ \A k \in 1..Len(args) : ConfigReference(args[k]))
               => ~VoidError
        /\ (calls[1].given = <<>> /\ HookFilled) => ~VoidError

\* parse_args([]) with exit_on_void and a hook that adds "@conf" returned
\* the namespace, with the default of x taken from the file
C28_Witness ==
    /\ Returned
    /\ exit_on_void
    /\ calls[1].given = <<>>
    /\ HookFilled
    /\ \E i \in 2..Len(actions) :
        /\ actions[i].dest = <<"x">>
        /\ value_at(heap, Root, <<"x">>) = Val(4)

\* parse_args(["w"]) with exit_on_void and a hook that returns [] ended in
\* the void error
C28_WitnessDropped ==
    /\ pc = "done"
    /\ VoidError
    /\ calls[1].given # <<>>
    /\ pre_parse = HookDrop

---------------------------------------------------------------------------
(* C29.  The default merge raises nothing on a configuration mapping: for  *)
(* a declaration with a dotted dest whose walk comes to a value that is no *)
(* mapping under an intermediate segment ({"a": 1} for a.b), the           *)
(* declaration is skipped as for an absent segment, default and required   *)
(* unchanged, and the remaining declarations are processed.                *)

\* the step is a set_defaults_from_configs, and declaration i meets a value
\* that is no mapping on the way to its dest
MeetsNonMapping(i) ==
    /\ last'.op = "set_defaults_from_configs"
    /\ Len(actions[i].dest) > 1
    /\ NonMappingSegment(last'.conf, actions[i].dest)

\* declaration j has the default the configuration supplies for it
Processed(j) ==
    supplied(last'.conf, actions[j].dest) # Absent
        => /\ actions'[j].default = supplied(last'.conf, actions[j].dest)
           /\ last'.optionalize => ~actions'[j].required

C29_NonMappingSkipped ==
    [][\A i \in 1..Len(actions) :
          MeetsNonMapping(i) =>
              /\ outcome' = "ok"
              /\ actions'[i] = actions[i]
              /\ \A j \in 1..Len(actions) : Processed(j)]_vars

\* what the merge does there: it raises at the first such declaration, with
\* the declarations before it processed and the ones from it on as they were
C29_NonMappingRaises ==
    [][\A i \in 1..Len(actions) :
          (MeetsNonMapping(i) /\ \A k \in 1..(i - 1) : ~MeetsNonMapping(k)) =>
              /\ outcome' = "raised"
              /\ \A j \in 1..(i - 1) : Processed(j)
              /\ \A j \in i..Len(actions) : actions'[j] = actions[j]]_vars

\* {"g": 3, "x": 4} on a parser with --g.a and then --x: the call raised
\* and x, which the configuration supplies, keeps the default it had
C29_Raised ==
    /\ last.op = "set_defaults_from_configs"
    /\ last.conf = ConfMixed
    /\ outcome = "raised"
    /\ \E i, j \in 2..Len(actions) :
        /\ i < j
        /\ actions[i].dest = <<"g", "a">>
        /\ actions[j].dest = <<"x">>
        /\ actions[j].default # Val(4)

---------------------------------------------------------------------------
(* C30.  Frame of the value-setting actions: store, store_const, append,   *)
(* count and extend with a dotted dest d change the leaf at d alone,       *)
(* creating the intermediate namespaces that are missing: every other leaf *)
(* of the namespace tree, the siblings under a shared prefix included,     *)
(* keeps its value, and no intermediate namespace there was is replaced.   *)

\* the paths from obj to the values under it, the empty path included
RECURSIVE PathsFrom(_, _)
PathsFrom(h, obj) ==
    IF obj.t # "ns" THEN {<<>>}
    ELSE {<<>>} \cup UNION {{<<k>> \o p : p \in PathsFrom(h, h[obj.id][k])} :
                               k \in DOMAIN h[obj.id]}

\* a value with what it holds: a list with its items
Content(ls, v) == IF v.t = "list" THEN <<v, ls[v.id]>> ELSE <<v>>

\* the step is a call of a value-setting action with a dotted dest
FrameCall ==
    /\ last'.op = "call"
    /\ actions[last'.i].kind \in FrameKinds
    /\ Len(actions[last'.i].dest) > 1

\* the leaf at q has, after the step, the value it had
LeafKept(q) ==
    Content(lists', value_at(heap', Root, q)) = Content(lists, value_at(heap, Root, q))

\* the step leaves every leaf but the one at d, and every namespace on the
\* way to d, as it was
FrameOf(d) ==
    \A q \in PathsFrom(heap, Root) \ {<<>>, d} :
        IF value_at(heap, Root, q).t = "ns"
        THEN IsPrefix(q, d) => value_at(heap', Root, q) = value_at(heap, Root, q)
        ELSE LeafKept(q)

C30_Frame ==
    [][FrameCall => FrameOf(actions[last'.i].dest)]_vars

\* what holds: the frame of a call whose dest names no namespace, and the
\* value the action sets at the dest whatever was there
C30_FrameOfLeaf ==
    [][FrameCall =>
        LET d == actions[last'.i].dest
        IN  /\ value_at(heap, Root, d).t # "ns" => FrameOf(d)
            /\ outcome' # "raised" => value_at(heap', Root, d).t # "ns"]_vars

\* --g.a and --g.a.c declared: "--g.a 1" has put 1 where the namespace with
\* the seeded g.a.c was
C30_SubtreeLost ==
    /\ last.op = "call"
    /\ actions[last.i].dest = <<"g", "a">>
    /\ actions[last.i].kind \in FrameKinds
    /\ \E j \in 2..Len(actions) : actions[j].dest = <<"g", "a", "c">>
    /\ value_at(heap, Root, <<"g", "a">>).t # "ns"
    /\ value_at(heap, Root, <<"g", "a", "c">>) = Absent

\* --g.a and --g.b declared: "--g.a 1" has set g.a, and g.b has its default
C30_SiblingKept ==
    /\ last.op = "call"
    /\ actions[last.i].dest = <<"g", "a">>
    /\ \E j \in 2..Len(actions) :
        /\ actions[j].dest = <<"g", "b">>
        /\ actions[j].default = Val(0)
        /\ value_at(heap, Root, <<"g", "b">>) = Val(0)

====
